---- MODULE Spec2Model ----
(***************************************************************************)
(* Recording pipeline of scriberr-desktop: the AudioRecorder session       *)
(* controller (src-tauri/src/recorder.rs), the AudioMixer worker           *)
(* (src-tauri/src/services/mixer.rs) and the command layer's recorder      *)
(* lock (src-tauri/src/lib.rs).                                            *)
(*                                                                         *)
(* Every start_recording that gets as far as WavWriter::create allocates   *)
(* a fresh writer Arc, mixer, running flag and pair of ring buffers; they  *)
(* all carry the same index s in 1..MaxSessions ("session s").  Index 0    *)
(* stands for the objects AudioRecorder::new() builds (writer Arc holding  *)
(* None, running flag false) and for Option::None in the Option fields.    *)
(*                                                                         *)
(* Spec follows whole sessions and counts the samples in the ring buffers. *)
(* MixSpec follows the samples of one session: the ring buffers hold the   *)
(* samples themselves, each callback reads the paused flag and then pushes *)
(* its buffer one sample at a time, and the encoder's output is recorded.  *)
(***************************************************************************)
EXTENDS Integers, Sequences, FiniteSets, TLC

\* ---------------------------------------------------------------- bounds
MaxSessions == 2      \* encoders start_recording may create in one run
QCap == 1             \* modelled ring-buffer capacity (192000 in the code)
RbCap == 2            \* the same capacity where the samples are followed
MaxFeed == 3          \* samples each source delivers in one followed session
MaxChunk == 2         \* longest buffer one callback delivers
MaxClock == 2         \* last instant of the followed clock
MaxErrors == 2        \* stream errors reported in one run
LevelN == 2           \* mixed samples per Level Metric block
MaxRows == 2          \* rows the table cached_recordings can hold
MaxJobs == 1          \* jobs the remote service creates in one run
MaxUploads == 2       \* calls of upload_recording in one run
MaxPasses == 2        \* background sync passes in one run
MaxSaves == 2         \* times the ledger is saved in one run
MaxEntries == 2       \* entries of the ledger

\* ------------------------------------------------------------ environment
Devices == {"MicA", "MicB"}             \* input devices the host enumerates
MicArgs == {"NoneOpt", "None", "Default", "MicA", "Ghost"}
SwitchArgs == {"MicB", "Ghost"}
NoPid == -1                             \* pid meaning "no system capture"
Pids == {NoPid, 7, 9}
HasWindow(pid) == pid = 7               \* pid 9 owns no shareable window

Sessions == 1..MaxSessions
Slots == 0..MaxSessions
Free == 0                               \* a Mutex nobody holds
Ctl == -1                               \* a Mutex held by the control thread

NoStream == [dev |-> "none", ch |-> 0]
NoCall == [op |-> "none", pc |-> "idle", pid |-> 0, mic |-> "", result |-> ""]
NoEntry == [enc |-> 0, mic |-> NoStream, str |-> 0, mixer |-> 0, idle |-> FALSE,
            paused |-> FALSE]

VARIABLES
    recLock,        \* AppState.recorder (tokio Mutex): Free or Ctl
    stopWaiting,    \* a second control thread waits in stop_recording_command
    cur,            \* the recorder call in progress (held under recLock)
    entry,          \* ghost: what the call in progress found when it began
    stream,         \* AudioRecorder.stream: 0 or the session its wrapper feeds
    mic_stream,     \* AudioRecorder.mic_stream: NoStream or [dev, ch]
    mixer,          \* contents of AudioRecorder.mixer: 0 or mixer index
    mixerLock,      \* holder of the mixer Mutex: Free, Ctl or a worker
    writer,         \* AudioRecorder.writer: index of the writer Arc
    slot,           \* slot[a]: writer Arc a holds Some(WavWriter)
    wlock,          \* wlock[a]: holder of writer Arc a's Mutex
    paused,         \* AudioRecorder.paused
    mixer_running,  \* AudioRecorder.mixer_running: index of the flag it holds
    running,        \* running[s]: value of session s's running flag
    mic_producer,   \* contents of AudioRecorder.mic_producer: 0 or channel
    sys_enabled,    \* AudioMixer.sys_enabled per mixer
    mic_enabled,    \* AudioMixer.mic_enabled per mixer
    sysq,           \* samples buffered in session s's system ring buffer
    micq,           \* samples buffered in session s's microphone ring buffer
    nsess,          \* number of encoders created so far
    finCount,       \* ghost: finalize() invocations per encoder
    lateWrite,      \* ghost: a write_sample reached encoder s after finalize
    wpc,            \* per spawned worker thread: its position
    wmix,           \* per worker thread: the mixer it found under the lock
    idleIo,         \* ghost: file I/O during a stop that began with no session
    concStop,       \* ghost: encoder on which two stops were outstanding
    concLeft,       \* ghost: how many of those two stops have not returned
    sys_rb,         \* MixSpec: sys_rb of the followed session, oldest first
    mic_rb,         \* MixSpec: mic_rb of the followed session, oldest first
    sys_cb,         \* samples a running system callback has still to push
    mic_cb,         \* samples a running microphone callback has still to push
    sys_fed,        \* samples the system source has delivered so far
    mic_fed,        \* samples the microphone has delivered so far
    mixed,          \* the worker's locals s_mic, s_sys, mixed; Idle outside
    out,            \* what write_sample has appended to the encoder
    skipped,        \* ghost: samples delivered to a callback that read paused
    pBuffered,      \* ghost: samples in both channels when pause was called
    pInFlight,      \* ghost: samples in a callback's or the worker's hands then
    pGrown,         \* ghost: samples written since pause was called
    now,            \* the clock
    start_time,     \* start time recorded for the session
    duration,       \* duration the last stop reported
    sys_buf,        \* ghost: the buffer the system callback was last handed
    sys_asbd,       \* ghost: the format description that came with it
    emitted,        \* Level Metric values the worker has emitted so far
    is_recording,   \* AppState.is_recording
    cmd_ret,        \* ghost: what the last start_recording_command returned
    statusWaiting,  \* a thread has called get_recording_status_command
    errLog,         \* lines the streams' error callbacks have printed
    fs,             \* the files on disk: the recording, ledger.json, its .tmp
    rows,           \* the rows of the table cached_recordings, by local_id
    jobs,           \* the transcription jobs the remote service holds
    remote_unique,  \* the migrations declare remote_job_id unique
    up,             \* the upload_recording call in progress
    sy,             \* the background sync pass in progress
    sv,             \* the add_recording_command call in progress
    loaded          \* what load_ledger returned after a restart

rbVars == <<sys_rb, mic_rb, sys_cb, mic_cb, sys_fed, mic_fed>>
pauseVars == <<pBuffered, pInFlight, pGrown>>
levelVars == <<emitted>>
mixVars == <<rbVars, mixed, out, skipped, pauseVars, sys_buf, sys_asbd, levelVars>>
clockVars == <<now, start_time, duration>>
appVars == <<is_recording, cmd_ret, statusWaiting, errLog>>
syncVars == <<rows, jobs, remote_unique, up, sy>>
storeVars == <<sv, loaded>>
serviceVars == <<fs, syncVars, storeVars>>

vars == <<recLock, stopWaiting, cur, entry, stream, mic_stream, mixer, mixerLock,
          writer, slot, wlock, paused, mixer_running, running, mic_producer,
          sys_enabled, mic_enabled, sysq, micq, nsess, finCount,
          lateWrite, wpc, wmix, idleIo, concStop, concLeft, mixVars, serviceVars,
          clockVars, appVars>>

recorderVars == <<stream, mic_stream, mixer, mixerLock, writer, slot, wlock,
                  paused, mixer_running, running, mic_producer, sys_enabled,
                  mic_enabled, nsess>>
queueVars == <<sysq, micq>>
encVars == <<finCount, lateWrite>>
workerVars == <<wpc, wmix>>
ctlVars == <<recLock, stopWaiting, cur, entry>>
concVars == <<concStop, concLeft>>

Inc(n, cap) == IF n < cap THEN n + 1 ELSE cap

\* The worker is not between a pop and its write.
Idle == [v |-> 0, mic |-> 0, sys |-> 0]

\* No buffer has been handed to the system callback.
NoBuf == [samples |-> <<>>, planar |-> FALSE, channels |-> 2]
NoDesc == [mFormatFlags |-> 0, mChannelsPerFrame |-> 0]   \* asbd_ptr.is_null()

\* The command layer at start-up: AppState { is_recording: Mutex::new(false) },
\* no command has returned, nobody asks for the status.
AppIdle ==
    /\ is_recording = FALSE /\ cmd_ret = "none" /\ statusWaiting = FALSE
    /\ errLog = 0

\* The services at start-up.  A file is absent or holds a text; a row of
\* cached_recordings is free or holds the columns the services read and
\* write (remote_job_id 0 and local_file_path "" stand for NULL).
FileNames == {"recording.wav", "ledger.json", "ledger.json.tmp"}
NoFile == [exists |-> FALSE, data |-> <<>>]
LocalIds == 1..MaxRows
JobIds == 1..MaxJobs
NoRow ==
    [used |-> FALSE, remote_job_id |-> 0, sync_status |-> "DRAFT_READY",
     local_file_path |-> "", keep_offline |-> FALSE]
NoUpload ==
    [pc |-> "idle", result |-> "none", marked |-> FALSE, remote_id |-> 0,
     keep_offline |-> FALSE, calls |-> 0]
NoPass ==
    [pc |-> "idle", todo |-> <<>>, existing |-> 0, status |-> "DRAFT_READY",
     passes |-> 0]
NoSave == [pc |-> "idle", prev |-> <<>>, json |-> <<>>, saves |-> 0]
NotLoaded == [result |-> "none", entries |-> <<>>]

\* No upload, no sync pass and no save has begun; the table and the
\* configuration directory are empty.  The recorder never reads the schema,
\* so one schema stands for both here.
ServicesIdle ==
    /\ fs = [f \in FileNames |-> NoFile]
    /\ rows = [i \in LocalIds |-> NoRow]
    /\ jobs = [j \in JobIds |-> "absent"]
    /\ remote_unique = FALSE
    /\ up = NoUpload
    /\ sy = NoPass
    /\ sv = NoSave
    /\ loaded = NotLoaded

\* Nothing delivered, nothing written.
NoSamples ==
    /\ sys_buf = NoBuf
    /\ sys_asbd = NoDesc
    /\ emitted = 0
    /\ sys_rb = <<>> /\ mic_rb = <<>>
    /\ sys_cb = <<>> /\ mic_cb = <<>>
    /\ sys_fed = 0 /\ mic_fed = 0
    /\ mixed = Idle
    /\ out = <<>>
    /\ skipped = {}
    /\ pBuffered = 0 /\ pInFlight = 0 /\ pGrown = 0

ClockZero == now = 0 /\ start_time = 0 /\ duration = 0

\* AudioRecorder::new and AppState construction
AppStart ==
    /\ NoSamples
    /\ ClockZero
    /\ AppIdle
    /\ recLock = Free
    /\ stopWaiting = FALSE
    /\ cur = NoCall
    /\ entry = NoEntry
    /\ stream = 0
    /\ mic_stream = NoStream
    /\ mixer = 0
    /\ mixerLock = Free
    /\ writer = 0
    /\ slot = [a \in Slots |-> FALSE]
    /\ wlock = [a \in Slots |-> Free]
    /\ paused = FALSE
    /\ mixer_running = 0
    /\ running = [s \in Slots |-> FALSE]
    /\ mic_producer = 0
    /\ sys_enabled = [s \in Sessions |-> FALSE]
    /\ mic_enabled = [s \in Sessions |-> FALSE]
    /\ sysq = [s \in Sessions |-> 0]
    /\ micq = [s \in Sessions |-> 0]
    /\ nsess = 0
    /\ finCount = [s \in Sessions |-> 0]
    /\ lateWrite = [s \in Sessions |-> FALSE]
    /\ wpc = [s \in Sessions |-> "none"]
    /\ wmix = [s \in Sessions |-> 0]
    /\ idleIo = FALSE
    /\ concStop = 0
    /\ concLeft = 0

\* The application right after start-up: no call of the services has begun.
Init == AppStart /\ ServicesIdle

\* The encoder the recorder currently holds open, 0 if none.
OpenEncoder == IF slot[writer] THEN writer ELSE 0

\* Worker threads that are inside AudioMixer::process.
InProcess == {w \in Sessions : wpc[w] \in {"loop", "drain", "mixed", "wlocked"}}

\* ------------------------------------------------------- command layer
\* Two control threads issue commands.  Every command takes
\* state.recorder.lock().await around its recorder call, so one call runs at
\* a time; the other thread can meanwhile have called stop_recording_command
\* and be waiting for the lock.
Snapshot(op) ==
    [enc |-> IF op = "start" THEN OpenEncoder ELSE 0,
     mic |-> IF op = "switch" THEN mic_stream ELSE NoStream,
     str |-> IF op = "switch" THEN stream ELSE 0,
     mixer |-> IF op = "switch" THEN mixer ELSE 0,
     idle |-> (op = "stop" /\ ~slot[writer] /\ mixer = 0 /\ stream = 0
                 /\ mic_stream = NoStream /\ InProcess = {}),
     paused |-> (op = "start" /\ paused)]

FirstPc(op) == IF op = "switch" THEN "sw_drop" ELSE "stop_adapters"

\* state.recorder.lock().await succeeds and the recorder method is entered.
\* The arguments of start_recording are drawn where the method first reads
\* them (StartCreate); those of switch_microphone here.  tokio's Mutex hands
\* the lock over in FIFO order, so a waiting stop goes first.
Begin(op) ==
    /\ recLock = Free
    /\ ~stopWaiting
    /\ op \in {"start", "stop", "switch"}
    /\ recLock' = Ctl
    /\ \E mic \in SwitchArgs \cup {""} :
         /\ (op = "switch") = (mic # "")
         /\ cur' = [op |-> op, pc |-> FirstPc(op), pid |-> 0, mic |-> mic,
                    result |-> ""]
    /\ entry' = Snapshot(op)
    /\ IF concLeft = 0
         THEN concStop' = 0 /\ concLeft' = 0
         ELSE UNCHANGED concVars
    /\ UNCHANGED <<stopWaiting, idleIo>>
    /\ UNCHANGED <<recorderVars, queueVars, encVars, workerVars>>
    /\ UNCHANGED <<mixVars, serviceVars, clockVars, appVars>>

\* The other control thread calls stop_recording_command while a recorder
\* call is running: it blocks on the recorder lock.
InvokeStopBlocked ==
    /\ recLock = Ctl
    /\ ~stopWaiting
    /\ stopWaiting' = TRUE
    /\ IF cur.op = "stop" /\ cur.pc # "ret" /\ OpenEncoder # 0
         THEN concStop' = OpenEncoder /\ concLeft' = 2
         ELSE UNCHANGED concVars
    /\ UNCHANGED <<recLock, cur, entry, idleIo>>
    /\ UNCHANGED <<recorderVars, queueVars, encVars, workerVars>>
    /\ UNCHANGED <<mixVars, serviceVars, clockVars, appVars>>

\* The waiting stop_recording_command obtains the recorder lock.
BeginWaitingStop ==
    /\ recLock = Free
    /\ stopWaiting
    /\ recLock' = Ctl
    /\ stopWaiting' = FALSE
    /\ cur' = [op |-> "stop", pc |-> "stop_adapters", pid |-> 0, mic |-> "",
               result |-> ""]
    /\ entry' = Snapshot("stop")
    /\ UNCHANGED <<idleIo, concVars>>
    /\ UNCHANGED <<recorderVars, queueVars, encVars, workerVars>>
    /\ UNCHANGED <<mixVars, serviceVars, clockVars, appVars>>

At(pc) == recLock = Ctl /\ cur.pc = pc
Goto(pc) == cur' = [cur EXCEPT !.pc = pc]
Return(result) == cur' = [cur EXCEPT !.pc = "ret", !.result = result]

\* The start time the session records and the duration stop reports: elapsed
\* time from the recorded start to the stop, read from a clock that never
\* runs backwards.
RecordedStart(call) ==
    IF call.op = "start" /\ call.result = "Ok" THEN now ELSE start_time

ReportedDuration(call) ==
    IF call.op = "stop" /\ call.result = "Ok" THEN now - start_time ELSE duration

\* The recorder method has returned; the command drops the recorder guard.
Release ==
    /\ At("ret")
    /\ start_time' = RecordedStart(cur)
    /\ duration' = ReportedDuration(cur)
    /\ UNCHANGED now
    /\ recLock' = Free
    /\ cur' = NoCall
    /\ entry' = NoEntry
    /\ idleIo' = FALSE
    /\ concLeft' = IF cur.op = "stop" /\ concLeft > 0 THEN concLeft - 1 ELSE concLeft
    /\ UNCHANGED <<stopWaiting, concStop>>
    /\ UNCHANGED <<recorderVars, queueVars, encVars, workerVars>>
    /\ UNCHANGED <<mixVars, serviceVars, appVars>>

\* Mutant of Pause: pausing also tells the mixing worker to stop.
Pause_StopsWorker ==
    /\ recLock = Free
    /\ paused' = TRUE
    /\ running' = [running EXCEPT ![mixer_running] = FALSE]
    /\ UNCHANGED <<stream, mic_stream, mixer, mixerLock, writer, slot, wlock,
                   mixer_running, mic_producer, sys_enabled, mic_enabled, nsess>>
    /\ UNCHANGED <<ctlVars, queueVars, encVars, workerVars, concVars, idleIo>>
    /\ UNCHANGED <<mixVars, serviceVars, clockVars, appVars>>

\* pause_recording_command / AudioRecorder::pause_recording
Pause ==
    /\ recLock = Free
    /\ paused' = TRUE
    /\ IF paused
         THEN UNCHANGED pauseVars
         ELSE /\ pBuffered' = Len(sys_rb) + Len(mic_rb)
              /\ pInFlight' = Len(sys_cb) + Len(mic_cb)
                                + (IF mixed = Idle THEN 0 ELSE 1)
              /\ pGrown' = 0
    /\ UNCHANGED <<rbVars, mixed, out, skipped, sys_buf, sys_asbd,
                   levelVars, serviceVars>>
    /\ UNCHANGED <<stream, mic_stream, mixer, mixerLock, writer, slot, wlock,
                   mixer_running, running, mic_producer, sys_enabled,
                   mic_enabled, nsess>>
    /\ UNCHANGED <<ctlVars, queueVars, encVars, workerVars, concVars, idleIo>>
    /\ UNCHANGED <<clockVars, appVars>>

\* resume_recording_command / AudioRecorder::resume_recording
Resume ==
    /\ recLock = Free
    /\ paused' = FALSE
    /\ pBuffered' = 0 /\ pInFlight' = 0 /\ pGrown' = 0
    /\ UNCHANGED <<rbVars, mixed, out, skipped, sys_buf, sys_asbd,
                   levelVars, serviceVars>>
    /\ UNCHANGED <<stream, mic_stream, mixer, mixerLock, writer, slot, wlock,
                   mixer_running, running, mic_producer, sys_enabled,
                   mic_enabled, nsess>>
    /\ UNCHANGED <<ctlVars, queueVars, encVars, workerVars, concVars, idleIo>>
    /\ UNCHANGED <<clockVars, appVars>>

\* ------------------------------------------- AudioRecorder::stop_recording
\* Mutant of StopAdapters: a start that finds an encoder open gives up with
\* an error instead of stopping the session.
StopAdapters_RejectActive ==
    /\ At("stop_adapters")
    /\ IF cur.op = "start" /\ slot[writer]
         THEN /\ Return("Err_invalid_state")
              /\ UNCHANGED <<mic_stream, stream>>
         ELSE /\ mic_stream' = NoStream
              /\ stream' = 0
              /\ Goto("stop_flag")
    /\ UNCHANGED <<mixer, mixerLock, writer, slot, wlock, paused, mixer_running,
                   running, mic_producer, sys_enabled, mic_enabled, nsess>>
    /\ UNCHANGED <<recLock, stopWaiting, entry, queueVars, encVars, workerVars,
                   concVars, idleIo>>
    /\ UNCHANGED <<mixVars, serviceVars, clockVars, appVars>>

\* self.mic_stream = None; stream.stop_capture(); self.stream = None
StopAdapters ==
    /\ At("stop_adapters")
    /\ mic_stream' = NoStream
    /\ stream' = 0
    /\ Goto("stop_flag")
    /\ UNCHANGED <<mixer, mixerLock, writer, slot, wlock, paused, mixer_running,
                   running, mic_producer, sys_enabled, mic_enabled, nsess>>
    /\ UNCHANGED <<recLock, stopWaiting, entry, queueVars, encVars, workerVars,
                   concVars, idleIo>>
    /\ UNCHANGED <<mixVars, serviceVars, clockVars, appVars>>

\* Mutant of StopSignal: stop sleeps but forgets to clear the running flag.
StopSignal_NoStore ==
    /\ At("stop_flag")
    /\ Goto("stop_wlock")
    /\ UNCHANGED <<stream, mic_stream, mixer, mixerLock, writer, slot, wlock,
                   paused, mixer_running, running, mic_producer, sys_enabled,
                   mic_enabled, nsess>>
    /\ UNCHANGED <<recLock, stopWaiting, entry, queueVars, encVars, workerVars,
                   concVars, idleIo>>
    /\ UNCHANGED <<mixVars, serviceVars, clockVars, appVars>>

\* self.mixer_running.store(false); the 100 ms sleep follows
StopSignal ==
    /\ At("stop_flag")
    /\ running' = [running EXCEPT ![mixer_running] = FALSE]
    /\ Goto("stop_wlock")
    /\ UNCHANGED <<stream, mic_stream, mixer, mixerLock, writer, slot, wlock,
                   paused, mixer_running, mic_producer, sys_enabled,
                   mic_enabled, nsess>>
    /\ UNCHANGED <<recLock, stopWaiting, entry, queueVars, encVars, workerVars,
                   concVars, idleIo>>
    /\ UNCHANGED <<mixVars, serviceVars, clockVars, appVars>>

\* let mut guard = self.writer.lock().unwrap()
StopLockWriter ==
    /\ At("stop_wlock")
    /\ wlock[writer] = Free
    /\ wlock' = [wlock EXCEPT ![writer] = Ctl]
    /\ Goto("stop_take")
    /\ UNCHANGED <<stream, mic_stream, mixer, mixerLock, writer, slot, paused,
                   mixer_running, running, mic_producer, sys_enabled,
                   mic_enabled, nsess>>
    /\ UNCHANGED <<recLock, stopWaiting, entry, queueVars, encVars, workerVars,
                   concVars, idleIo>>
    /\ UNCHANGED <<mixVars, serviceVars, clockVars, appVars>>

\* Mutants of StopFinalize: finalize through the guard without take(), and
\* take() that drops the writer without finalize.
StopFinalize_NoTake ==
    /\ At("stop_take")
    /\ wlock' = [wlock EXCEPT ![writer] = Free]
    /\ IF slot[writer]
         THEN /\ finCount' = [finCount EXCEPT ![writer] = Inc(@, 2)]
              /\ idleIo' = entry.idle
              /\ \E ok \in BOOLEAN :
                   IF ok THEN Goto("stop_mlock") ELSE Return("Err_finalize")
         ELSE /\ Goto("stop_mlock")
              /\ UNCHANGED <<finCount, idleIo>>
    /\ UNCHANGED <<stream, mic_stream, mixer, mixerLock, writer, slot, paused,
                   mixer_running, running, mic_producer, sys_enabled,
                   mic_enabled, nsess>>
    /\ UNCHANGED <<recLock, stopWaiting, entry, queueVars, lateWrite,
                   workerVars, concVars>>
    /\ UNCHANGED <<mixVars, serviceVars, clockVars, appVars>>

StopFinalize_NoFinalize ==
    /\ At("stop_take")
    /\ wlock' = [wlock EXCEPT ![writer] = Free]
    /\ slot' = [slot EXCEPT ![writer] = FALSE]
    /\ Goto("stop_mlock")
    /\ UNCHANGED <<stream, mic_stream, mixer, mixerLock, writer, paused,
                   mixer_running, running, mic_producer, sys_enabled,
                   mic_enabled, nsess>>
    /\ UNCHANGED <<recLock, stopWaiting, entry, queueVars, encVars,
                   workerVars, concVars, idleIo>>
    /\ UNCHANGED <<mixVars, serviceVars, clockVars, appVars>>

\* if let Some(writer) = guard.take() { writer.finalize()...? }; guard dropped
StopFinalize ==
    /\ At("stop_take")
    /\ wlock' = [wlock EXCEPT ![writer] = Free]
    /\ IF slot[writer]
         THEN /\ slot' = [slot EXCEPT ![writer] = FALSE]
              /\ finCount' = [finCount EXCEPT ![writer] = Inc(@, 2)]
              /\ idleIo' = entry.idle
              /\ \E ok \in BOOLEAN :
                   IF ok THEN Goto("stop_mlock") ELSE Return("Err_finalize")
         ELSE /\ Goto("stop_mlock")
              /\ UNCHANGED <<slot, finCount, idleIo>>
    /\ UNCHANGED <<stream, mic_stream, mixer, mixerLock, writer, paused,
                   mixer_running, running, mic_producer, sys_enabled,
                   mic_enabled, nsess>>
    /\ UNCHANGED <<recLock, stopWaiting, entry, queueVars, lateWrite,
                   workerVars, concVars>>
    /\ UNCHANGED <<mixVars, serviceVars, clockVars, appVars>>

\* Mutants of StopClearMixer: clearing the mixer without waiting for its
\* lock, and refusing to stop when no mixer is installed.
StopClearMixer_NoWait ==
    /\ At("stop_mlock")
    /\ mixer' = 0
    /\ IF mixer # 0
         THEN /\ sysq' = [sysq EXCEPT ![mixer] = 0]
              /\ micq' = [micq EXCEPT ![mixer] = 0]
              /\ sys_enabled' = [sys_enabled EXCEPT ![mixer] = FALSE]
              /\ mic_enabled' = [mic_enabled EXCEPT ![mixer] = FALSE]
         ELSE UNCHANGED <<queueVars, sys_enabled, mic_enabled>>
    /\ IF cur.op = "start" THEN Goto("start_create") ELSE Return("Ok")
    /\ UNCHANGED <<stream, mic_stream, mixerLock, writer, slot, wlock, paused,
                   mixer_running, running, mic_producer, nsess>>
    /\ UNCHANGED <<recLock, stopWaiting, entry, encVars, workerVars,
                   concVars, idleIo>>
    /\ UNCHANGED <<mixVars, serviceVars, clockVars, appVars>>

StopClearMixer_Strict ==
    /\ At("stop_mlock")
    /\ mixerLock = Free
    /\ mixer' = 0
    /\ IF mixer # 0
         THEN /\ sysq' = [sysq EXCEPT ![mixer] = 0]
              /\ micq' = [micq EXCEPT ![mixer] = 0]
              /\ sys_enabled' = [sys_enabled EXCEPT ![mixer] = FALSE]
              /\ mic_enabled' = [mic_enabled EXCEPT ![mixer] = FALSE]
         ELSE UNCHANGED <<queueVars, sys_enabled, mic_enabled>>
    /\ IF mixer = 0 /\ cur.op = "stop"
         THEN Return("Err_invalid_state")
         ELSE IF cur.op = "start" THEN Goto("start_create") ELSE Return("Ok")
    /\ UNCHANGED <<stream, mic_stream, mixerLock, writer, slot, wlock, paused,
                   mixer_running, running, mic_producer, nsess>>
    /\ UNCHANGED <<recLock, stopWaiting, entry, encVars, workerVars,
                   concVars, idleIo>>
    /\ UNCHANGED <<mixVars, serviceVars, clockVars, appVars>>

\* *self.mixer.lock().unwrap() = None; Ok(())
\* Assigning None drops the AudioMixer and with it both ring-buffer consumers:
\* neither its fields nor what its buffers held can be read again.
StopClearMixer ==
    /\ At("stop_mlock")
    /\ mixerLock = Free
    /\ mixer' = 0
    /\ IF mixer # 0
         THEN /\ sysq' = [sysq EXCEPT ![mixer] = 0]
              /\ micq' = [micq EXCEPT ![mixer] = 0]
              /\ sys_enabled' = [sys_enabled EXCEPT ![mixer] = FALSE]
              /\ mic_enabled' = [mic_enabled EXCEPT ![mixer] = FALSE]
         ELSE UNCHANGED <<queueVars, sys_enabled, mic_enabled>>
    /\ IF cur.op = "start" THEN Goto("start_create") ELSE Return("Ok")
    /\ UNCHANGED <<stream, mic_stream, mixerLock, writer, slot, wlock, paused,
                   mixer_running, running, mic_producer, nsess>>
    /\ UNCHANGED <<recLock, stopWaiting, entry, encVars, workerVars,
                   concVars, idleIo>>
    /\ UNCHANGED <<mixVars, serviceVars, clockVars, appVars>>

\* ------------------------------------------ AudioRecorder::start_recording
\* let mic_enabled = if let Some(ref device_name) = ... { device_name != "None" }
MicEnabledArg(mic) == mic \notin {"NoneOpt", "None"}

\* Mutant of StartCreate: the paused flag is left as the last session had it.
StartCreate_KeepsPaused ==
    /\ At("start_create")
    /\ paused' = paused
    /\ \E created \in BOOLEAN, pid \in Pids, mic \in MicArgs :
         IF created
           THEN /\ nsess < MaxSessions
                /\ mixerLock = Free
                /\ nsess' = nsess + 1
                /\ writer' = nsess + 1
                /\ slot' = [slot EXCEPT ![nsess + 1] = TRUE]
                /\ sys_enabled' = [sys_enabled EXCEPT ![nsess + 1] = (pid # NoPid)]
                /\ mic_enabled' = [mic_enabled EXCEPT ![nsess + 1] = MicEnabledArg(mic)]
                /\ mixer' = nsess + 1
                /\ mixer_running' = nsess + 1
                /\ running' = [running EXCEPT ![nsess + 1] = TRUE]
                /\ wpc' = [wpc EXCEPT ![nsess + 1] = "spawned"]
                /\ cur' = [cur EXCEPT !.pc = "start_mic", !.pid = pid, !.mic = mic]
           ELSE /\ pid = NoPid /\ mic = "NoneOpt"
                /\ Return("Err_create")
                /\ UNCHANGED <<nsess, writer, slot, sys_enabled, mic_enabled,
                               mixer, mixer_running, running, wpc>>
    /\ UNCHANGED <<stream, mic_stream, mixerLock, wlock, mic_producer>>
    /\ UNCHANGED <<recLock, stopWaiting, entry, queueVars, encVars, wmix, concVars,
                   idleIo>>
    /\ UNCHANGED <<mixVars, serviceVars, clockVars, appVars>>

\* self.paused.store(false); WavWriter::create(..)?; self.writer = writer_arc;
\* AudioMixer::new(..); *self.mixer.lock().unwrap() = Some(mixer);
\* self.mixer_running = running; std::thread::spawn(..)
StartCreate ==
    /\ At("start_create")
    /\ paused' = FALSE
    /\ \E created \in BOOLEAN, pid \in Pids, mic \in MicArgs :
         IF created
           THEN /\ nsess < MaxSessions
                /\ mixerLock = Free
                /\ nsess' = nsess + 1
                /\ writer' = nsess + 1
                /\ slot' = [slot EXCEPT ![nsess + 1] = TRUE]
                /\ sys_enabled' = [sys_enabled EXCEPT ![nsess + 1] = (pid # NoPid)]
                /\ mic_enabled' = [mic_enabled EXCEPT ![nsess + 1] = MicEnabledArg(mic)]
                /\ mixer' = nsess + 1
                /\ mixer_running' = nsess + 1
                /\ running' = [running EXCEPT ![nsess + 1] = TRUE]
                /\ wpc' = [wpc EXCEPT ![nsess + 1] = "spawned"]
                /\ cur' = [cur EXCEPT !.pc = "start_mic", !.pid = pid, !.mic = mic]
           ELSE /\ pid = NoPid /\ mic = "NoneOpt"
                /\ Return("Err_create")
                /\ UNCHANGED <<nsess, writer, slot, sys_enabled, mic_enabled,
                               mixer, mixer_running, running, wpc>>
    /\ UNCHANGED <<stream, mic_stream, mixerLock, wlock, mic_producer>>
    /\ UNCHANGED <<recLock, stopWaiting, entry, queueVars, encVars, wmix, concVars,
                   idleIo>>
    /\ UNCHANGED <<mixVars, serviceVars, clockVars, appVars>>

\* 3. Setup Microphone (if requested).  mic_enabled, mic_prod and sys_prod are
\* locals of this call: those of the session it has just created (nsess).
StartMic ==
    /\ At("start_mic")
    /\ IF ~mic_enabled[nsess]
         THEN /\ Goto("start_sys")
              /\ UNCHANGED <<mic_producer, mic_stream>>
         ELSE /\ mic_producer' = nsess
              /\ \E devices_ok \in BOOLEAN, found_default \in BOOLEAN,
                    outcome \in {"ok", "build_err", "play_err"} :
                   LET found == IF cur.mic = "Default" THEN found_default
                                ELSE cur.mic \in Devices
                       dev == IF cur.mic = "Default" THEN "MicA" ELSE cur.mic
                   IN  IF cur.mic # "Default" /\ ~devices_ok
                         THEN /\ Return("Err_devices")
                              /\ UNCHANGED mic_stream
                         ELSE /\ Goto("start_sys")
                              /\ IF found /\ outcome = "ok"
                                   THEN mic_stream' = [dev |-> dev, ch |-> nsess]
                                   ELSE UNCHANGED mic_stream
    /\ UNCHANGED <<stream, mixer, mixerLock, writer, slot, wlock, paused,
                   mixer_running, running, sys_enabled, mic_enabled, nsess>>
    /\ UNCHANGED <<recLock, stopWaiting, entry, queueVars, encVars, workerVars,
                   concVars, idleIo>>
    /\ UNCHANGED <<mixVars, serviceVars, clockVars, appVars>>

\* 4. Setup System Audio (SCK) - Only if enabled; Ok(())
StartSys ==
    /\ At("start_sys")
    /\ IF ~sys_enabled[nsess]
         THEN /\ Return("Ok")
              /\ UNCHANGED stream
         ELSE IF ~HasWindow(cur.pid)
                THEN /\ Return("Err_nowindow")
                     /\ UNCHANGED stream
                ELSE \E captured \in BOOLEAN :
                       IF captured
                         THEN /\ stream' = nsess
                              /\ Return("Ok")
                         ELSE /\ Return("Err_capture")
                              /\ UNCHANGED stream
    /\ UNCHANGED <<mic_stream, mixer, mixerLock, writer, slot, wlock, paused,
                   mixer_running, running, mic_producer, sys_enabled,
                   mic_enabled, nsess>>
    /\ UNCHANGED <<recLock, stopWaiting, entry, queueVars, encVars, workerVars,
                   concVars, idleIo>>
    /\ UNCHANGED <<mixVars, serviceVars, clockVars, appVars>>

\* ---------------------------------------- AudioRecorder::switch_microphone
\* The stream switch_microphone has built on the producer it found in
\* self.mic_producer (its local mic_stream), playing from play() on.
NewMicStream == [dev |-> cur.mic, ch |-> mic_producer]

\* Mutant of SwitchDrop: the old stream is left in place until the new one
\* replaces it.
SwitchDrop_KeepOld ==
    /\ At("sw_drop")
    /\ Goto("sw_attach")
    /\ UNCHANGED <<stream, mic_stream, mixer, mixerLock, writer, slot, wlock,
                   paused, mixer_running, running, mic_producer, sys_enabled,
                   mic_enabled, nsess>>
    /\ UNCHANGED <<recLock, stopWaiting, entry, queueVars, encVars, workerVars,
                   concVars, idleIo>>
    /\ UNCHANGED <<mixVars, serviceVars, clockVars, appVars>>

\* self.mic_stream = None  (the old cpal stream is dropped)
SwitchDrop ==
    /\ At("sw_drop")
    /\ mic_stream' = NoStream
    /\ Goto("sw_attach")
    /\ UNCHANGED <<stream, mixer, mixerLock, writer, slot, wlock, paused,
                   mixer_running, running, mic_producer, sys_enabled,
                   mic_enabled, nsess>>
    /\ UNCHANGED <<recLock, stopWaiting, entry, queueVars, encVars, workerVars,
                   concVars, idleIo>>
    /\ UNCHANGED <<mixVars, serviceVars, clockVars, appVars>>

\* device lookup, producer lookup, build_input_stream, play
SwitchAttach ==
    /\ At("sw_attach")
    /\ \E devices_ok \in BOOLEAN, outcome \in {"ok", "build_err", "play_err"} :
         IF ~devices_ok THEN Return("Err_devices") /\ UNCHANGED mic_stream
         ELSE IF cur.mic \notin Devices
                THEN Return("Err_notfound") /\ UNCHANGED mic_stream
         ELSE IF mic_producer = 0
                THEN Return("Err_noproducer") /\ UNCHANGED mic_stream
         ELSE IF outcome = "build_err"
                THEN Return("Err_build") /\ UNCHANGED mic_stream
         ELSE IF outcome = "play_err"
                THEN Return("Err_play") /\ UNCHANGED mic_stream
         ELSE Goto("sw_store") /\ UNCHANGED mic_stream
    /\ UNCHANGED <<stream, mixer, mixerLock, writer, slot, wlock, paused,
                   mixer_running, running, mic_producer, sys_enabled,
                   mic_enabled, nsess>>
    /\ UNCHANGED <<recLock, stopWaiting, entry, queueVars, encVars, workerVars,
                   concVars, idleIo>>
    /\ UNCHANGED <<mixVars, serviceVars, clockVars, appVars>>

\* self.mic_stream = Some(SendStream(mic_stream)); Ok(())
SwitchStore ==
    /\ At("sw_store")
    /\ mic_stream' = NewMicStream
    /\ Return("Ok")
    /\ UNCHANGED <<stream, mixer, mixerLock, writer, slot, wlock, paused,
                   mixer_running, running, mic_producer, sys_enabled,
                   mic_enabled, nsess>>
    /\ UNCHANGED <<recLock, stopWaiting, entry, queueVars, encVars, workerVars,
                   concVars, idleIo>>
    /\ UNCHANGED <<mixVars, serviceVars, clockVars, appVars>>

\* The microphone device streams that exist and are playing: the one the
\* recorder holds and the one switch_microphone has started and not yet stored.
LiveMic ==
    {st \in {mic_stream} : st # NoStream}
      \cup {st \in {NewMicStream} : At("sw_store")}

\* ------------------------------------------------------ capture callbacks
\* cpal input callback: if !mic_paused { for sample in data { prod.push(sample) } }
MicCallback ==
    /\ ~paused
    /\ \E st \in LiveMic : micq' = [micq EXCEPT ![st.ch] = Inc(@, QCap)]
    /\ UNCHANGED <<sysq, recorderVars, ctlVars, encVars, workerVars, concVars,
                   idleIo>>
    /\ UNCHANGED <<mixVars, serviceVars, clockVars, appVars>>

\* OutputWrapper::did_output_sample_buffer: pushes unless paused
SysCallback ==
    /\ stream # 0
    /\ ~paused
    /\ sysq' = [sysq EXCEPT ![stream] = Inc(@, QCap)]
    /\ UNCHANGED <<micq, recorderVars, ctlVars, encVars, workerVars, concVars,
                   idleIo>>
    /\ UNCHANGED <<mixVars, serviceVars, clockVars, appVars>>

\* ------------------------------------------------- mixer worker thread
\* Mutant of Master: with the microphone channel empty and system samples
\* waiting, the system source paces the loop.
Master_ByContents(m) ==
    IF mic_enabled[m] /\ ~(mic_rb = <<>> /\ sys_enabled[m] /\ sys_rb # <<>>)
      THEN "mic"
      ELSE IF sys_enabled[m] THEN "sys" ELSE "none"

\* Master source of mixer m: decided by the enabled flags alone.
Master(m) ==
    IF mic_enabled[m] THEN "mic" ELSE IF sys_enabled[m] THEN "sys" ELSE "none"

MasterLen(m) ==
    IF Master(m) = "mic" THEN micq[m] ELSE IF Master(m) = "sys" THEN sysq[m] ELSE 0

\* spawned closure: if let Ok(mut guard) = mixer_arc.lock() { if let Some(mixer) ..
WorkerLock(w) ==
    /\ wpc[w] = "spawned"
    /\ mixerLock = Free
    /\ IF mixer = 0
         THEN /\ wpc' = [wpc EXCEPT ![w] = "done"]
              /\ UNCHANGED <<mixerLock, wmix>>
         ELSE /\ mixerLock' = w
              /\ wmix' = [wmix EXCEPT ![w] = mixer]
              /\ wpc' = [wpc EXCEPT ![w] = "loop"]
    /\ UNCHANGED <<stream, mic_stream, mixer, writer, slot, wlock, paused,
                   mixer_running, running, mic_producer, sys_enabled,
                   mic_enabled, nsess>>
    /\ UNCHANGED <<ctlVars, queueVars, encVars, concVars, idleIo>>
    /\ UNCHANGED <<mixVars, serviceVars, clockVars, appVars>>

\* Mutant of WorkerLoop: the loop goes round without loading the running flag.
WorkerLoop_NoLoad(w) ==
    /\ wpc[w] = "loop"
    /\ MasterLen(wmix[w]) > 0
    /\ wpc' = [wpc EXCEPT ![w] = "drain"]
    /\ UNCHANGED <<mixerLock, wmix>>
    /\ UNCHANGED <<stream, mic_stream, mixer, writer, slot, wlock, paused,
                   mixer_running, running, mic_producer, sys_enabled,
                   mic_enabled, nsess>>
    /\ UNCHANGED <<ctlVars, queueVars, encVars, concVars, idleIo>>
    /\ UNCHANGED <<mixVars, serviceVars, clockVars, appVars>>

\* while self.running.load(..) { if master.is_empty() { sleep; continue } .. }
WorkerLoop(w) ==
    /\ wpc[w] = "loop"
    /\ IF ~running[wmix[w]]
         THEN /\ mixerLock' = Free
              /\ wpc' = [wpc EXCEPT ![w] = "done"]
              /\ wmix' = [wmix EXCEPT ![w] = 0]
         ELSE /\ MasterLen(wmix[w]) > 0
              /\ wpc' = [wpc EXCEPT ![w] = "drain"]
              /\ UNCHANGED <<mixerLock, wmix>>
    /\ UNCHANGED <<stream, mic_stream, mixer, writer, slot, wlock, paused,
                   mixer_running, running, mic_producer, sys_enabled,
                   mic_enabled, nsess>>
    /\ UNCHANGED <<ctlVars, queueVars, encVars, concVars, idleIo>>
    /\ UNCHANGED <<mixVars, serviceVars, clockVars, appVars>>

\* while !master.is_empty() { master.pop(); other.pop().unwrap_or(0.0); mix; clip
WorkerPop(w) ==
    /\ wpc[w] = "drain"
    /\ LET m == wmix[w] IN
       IF MasterLen(m) = 0
         THEN /\ wpc' = [wpc EXCEPT ![w] = "loop"]
              /\ UNCHANGED queueVars
         ELSE /\ wpc' = [wpc EXCEPT ![w] = "mixed"]
              /\ IF Master(m) = "mic"
                   THEN /\ micq' = [micq EXCEPT ![m] = @ - 1]
                        /\ sysq' = [sysq EXCEPT ![m] =
                                      IF sys_enabled[m] /\ @ > 0 THEN @ - 1 ELSE @]
                   ELSE /\ sysq' = [sysq EXCEPT ![m] = @ - 1]
                        /\ UNCHANGED micq
    /\ UNCHANGED <<recorderVars, ctlVars, encVars, wmix, concVars, idleIo>>
    /\ UNCHANGED <<mixVars, serviceVars, clockVars, appVars>>

\* if let Ok(mut guard) = self.writer.lock()
WorkerLockWriter(w) ==
    /\ wpc[w] = "mixed"
    /\ wlock[wmix[w]] = Free
    /\ wlock' = [wlock EXCEPT ![wmix[w]] = w]
    /\ wpc' = [wpc EXCEPT ![w] = "wlocked"]
    /\ UNCHANGED <<stream, mic_stream, mixer, mixerLock, writer, slot, paused,
                   mixer_running, running, mic_producer, sys_enabled,
                   mic_enabled, nsess>>
    /\ UNCHANGED <<ctlVars, queueVars, encVars, wmix, concVars, idleIo>>
    /\ UNCHANGED <<mixVars, serviceVars, clockVars, appVars>>

\* if let Some(writer) = &mut *guard { let _ = writer.write_sample(mixed); }
WorkerWrite(w) ==
    /\ wpc[w] = "wlocked"
    /\ LET m == wmix[w] IN
       /\ wlock' = [wlock EXCEPT ![m] = Free]
       /\ IF slot[m]
            THEN /\ lateWrite' = [lateWrite EXCEPT ![m] = @ \/ finCount[m] > 0]
                 /\ idleIo' = (idleIo \/ (recLock = Ctl /\ entry.idle))
            ELSE UNCHANGED <<lateWrite, idleIo>>
    /\ wpc' = [wpc EXCEPT ![w] = "drain"]
    /\ UNCHANGED <<stream, mic_stream, mixer, mixerLock, writer, slot, paused,
                   mixer_running, running, mic_producer, sys_enabled,
                   mic_enabled, nsess>>
    /\ UNCHANGED <<ctlVars, queueVars, finCount, wmix, concVars>>
    /\ UNCHANGED <<mixVars, serviceVars, clockVars, appVars>>

\* ------------------------------------------------------------ the system
Next ==
    \/ \E op \in {"start", "stop", "switch"} : Begin(op)
    \/ InvokeStopBlocked
    \/ BeginWaitingStop
    \/ Release
    \/ Pause
    \/ Resume
    \/ StopAdapters
    \/ StopSignal
    \/ StopLockWriter
    \/ StopFinalize
    \/ StopClearMixer
    \/ StartCreate
    \/ StartMic
    \/ StartSys
    \/ SwitchDrop
    \/ SwitchAttach
    \/ SwitchStore
    \/ MicCallback
    \/ SysCallback
    \/ \E w \in Sessions : WorkerLock(w)
    \/ \E w \in Sessions : WorkerLoop(w)
    \/ \E w \in Sessions : WorkerPop(w)
    \/ \E w \in Sessions : WorkerLockWriter(w)
    \/ \E w \in Sessions : WorkerWrite(w)

Spec == Init /\ [][Next]_vars

TypeOK ==
    /\ recLock \in {Free, Ctl}
    /\ mixer \in Slots /\ writer \in Slots /\ stream \in Slots
    /\ mixerLock \in Sessions \cup {Free, Ctl}
    /\ \A s \in Sessions : sysq[s] \in 0..QCap /\ micq[s] \in 0..QCap
    /\ nsess \in 0..MaxSessions

\* ------------------------------------------------ sessions against the clock
\* SessionSpec runs start and stop calls, one after the other in any order
\* and for every choice of sources, while the clock advances.
Tick ==
    /\ now < MaxClock
    /\ now' = now + 1
    /\ UNCHANGED <<start_time, duration>>
    /\ UNCHANGED <<recorderVars, ctlVars, queueVars, encVars, workerVars,
                   concVars, idleIo, mixVars, serviceVars, appVars>>

SessionNext ==
    \/ \E op \in {"start", "stop"} : Begin(op)
    \/ Release
    \/ StopAdapters
    \/ StopSignal
    \/ StopLockWriter
    \/ StopFinalize
    \/ StopClearMixer
    \/ StartCreate
    \/ StartMic
    \/ StartSys
    \/ MicCallback
    \/ SysCallback
    \/ \E w \in Sessions : WorkerLock(w)
    \/ \E w \in Sessions : WorkerLoop(w)
    \/ \E w \in Sessions : WorkerPop(w)
    \/ \E w \in Sessions : WorkerLockWriter(w)
    \/ \E w \in Sessions : WorkerWrite(w)
    \/ Tick

SessionSpec == Init /\ [][SessionNext]_vars

\* The control thread inside stop_recording and every mixer thread are
\* operating-system threads: each eventually takes its next step when it can.
SessionFair ==
    /\ SessionSpec
    /\ WF_vars(StopAdapters)
    /\ WF_vars(StopSignal)
    /\ WF_vars(StopLockWriter)
    /\ WF_vars(StopFinalize)
    /\ WF_vars(StopClearMixer)
    /\ \A w \in Sessions :
         /\ WF_vars(WorkerLock(w))
         /\ WF_vars(WorkerLoop(w))
         /\ WF_vars(WorkerPop(w))
         /\ WF_vars(WorkerLockWriter(w))
         /\ WF_vars(WorkerWrite(w))

\* ------------------------------------------------- the command entry points
\* CmdSpec drives the recorder through start_recording_command, which goes
\* through toggle_recording, and stop_recording_command.
\* toggle_recording: state.is_recording.lock().await, state.recorder.lock()
\* .await; with the flag set it only clears it, otherwise it enters the
\* recorder's start_recording.
ToggleBegin ==
    IF is_recording
      THEN /\ recLock = Free
           /\ ~stopWaiting
           /\ recLock' = Ctl
           /\ cur' = [op |-> "toggle_off", pc |-> "cmd_ret", pid |-> 0, mic |-> "",
                      result |-> "not_called"]
           /\ is_recording' = FALSE
           /\ cmd_ret' = "Ok"
           /\ UNCHANGED <<stopWaiting, entry, idleIo, concVars, statusWaiting,
                   errLog>>
           /\ UNCHANGED <<recorderVars, queueVars, encVars, workerVars>>
           /\ UNCHANGED <<mixVars, serviceVars, clockVars>>
      ELSE Begin("start")

\* match recorder.start_recording(..).await { Ok(_) => *is_recording = true,
\* Err(e) => eprintln!(..) }; then start_recording_command's Ok(())
ToggleMatch ==
    /\ At("ret")
    /\ cur.op = "start"
    /\ is_recording' = (cur.result = "Ok")
    /\ cmd_ret' = "Ok"
    /\ Goto("cmd_ret")
    /\ UNCHANGED <<recLock, stopWaiting, entry, idleIo, concVars, statusWaiting,
                   errLog>>
    /\ UNCHANGED <<recorderVars, queueVars, encVars, workerVars>>
    /\ UNCHANGED <<mixVars, serviceVars, clockVars>>

\* toggle_recording returns: both guards are dropped and the command's
\* result goes to its caller.
ToggleRelease ==
    /\ At("cmd_ret")
    /\ start_time' = RecordedStart(cur)
    /\ UNCHANGED <<now, duration>>
    /\ recLock' = Free
    /\ cur' = NoCall
    /\ entry' = NoEntry
    /\ cmd_ret' = "none"
    /\ UNCHANGED <<stopWaiting, idleIo, concVars, is_recording, statusWaiting,
                 errLog>>
    /\ UNCHANGED <<recorderVars, queueVars, encVars, workerVars>>
    /\ UNCHANGED <<mixVars, serviceVars>>

\* stop_recording_command: the recorder guard is dropped when stop returns.
StopRelease == cur.op = "stop" /\ Release

CmdNext ==
    \/ ToggleBegin
    \/ ToggleMatch
    \/ ToggleRelease
    \/ Begin("stop")
    \/ StopRelease
    \/ StopAdapters
    \/ StopSignal
    \/ StopLockWriter
    \/ StopFinalize
    \/ StopClearMixer
    \/ StartCreate
    \/ StartMic
    \/ StartSys
    \/ MicCallback
    \/ SysCallback
    \/ \E w \in Sessions : WorkerLock(w)
    \/ \E w \in Sessions : WorkerLoop(w)
    \/ \E w \in Sessions : WorkerPop(w)
    \/ \E w \in Sessions : WorkerLockWriter(w)
    \/ \E w \in Sessions : WorkerWrite(w)

CmdSpec == Init /\ [][CmdNext]_vars

\* ------------------------------------------------------- stream errors
\* ErrSpec runs start and stop calls while the device streams report errors.
\* Mutant of MicError: the error callback also clears the running flag.
MicError_StopsWorker ==
    /\ mic_stream # NoStream
    /\ errLog < MaxErrors
    /\ errLog' = errLog + 1
    /\ running' = [running EXCEPT ![mixer_running] = FALSE]
    /\ UNCHANGED <<stream, mic_stream, mixer, mixerLock, writer, slot, wlock, paused,
                   mixer_running, mic_producer, sys_enabled, mic_enabled, nsess>>
    /\ UNCHANGED <<ctlVars, queueVars, encVars, workerVars, concVars, idleIo>>
    /\ UNCHANGED <<mixVars, serviceVars, clockVars, is_recording, cmd_ret, statusWaiting>>

\* the error callback of the cpal input stream: eprintln!("Mic error: {:?}", err)
MicError ==
    /\ mic_stream # NoStream
    /\ errLog < MaxErrors
    /\ errLog' = errLog + 1
    /\ UNCHANGED <<recorderVars, ctlVars, queueVars, encVars, workerVars, concVars,
                   idleIo>>
    /\ UNCHANGED <<mixVars, serviceVars, clockVars, is_recording, cmd_ret, statusWaiting>>

\* ErrorHandler::on_error of the capture stream: eprintln!("Stream error occurred")
SysError ==
    /\ stream # 0
    /\ errLog < MaxErrors
    /\ errLog' = errLog + 1
    /\ UNCHANGED <<recorderVars, ctlVars, queueVars, encVars, workerVars, concVars,
                   idleIo>>
    /\ UNCHANGED <<mixVars, serviceVars, clockVars, is_recording, cmd_ret, statusWaiting>>

ErrNext ==
    \/ MicError
    \/ SysError
    \/ \E op \in {"start", "stop"} : Begin(op)
    \/ Release
    \/ StopAdapters
    \/ StopSignal
    \/ StopLockWriter
    \/ StopFinalize
    \/ StopClearMixer
    \/ StartCreate
    \/ StartMic
    \/ StartSys
    \/ MicCallback
    \/ SysCallback
    \/ \E w \in Sessions : WorkerLock(w)
    \/ \E w \in Sessions : WorkerLoop(w)
    \/ \E w \in Sessions : WorkerPop(w)
    \/ \E w \in Sessions : WorkerLockWriter(w)
    \/ \E w \in Sessions : WorkerWrite(w)

ErrSpec == Init /\ [][ErrNext]_vars

\* ------------------------------------------------------- the status query
\* StatusSpec runs start and stop calls while other threads of the command
\* runtime call get_recording_status_command.
\* get_recording_status_command is invoked: it reaches
\* state.recorder.lock().await
InvokeStatus ==
    /\ ~statusWaiting
    /\ statusWaiting' = TRUE
    /\ UNCHANGED <<recLock, stopWaiting, cur, entry, idleIo, concVars>>
    /\ UNCHANGED <<recorderVars, queueVars, encVars, workerVars>>
    /\ UNCHANGED <<mixVars, serviceVars, clockVars, is_recording, cmd_ret, errLog>>

\* the recorder guard is granted, recorder.get_status() reads the session
\* attributes through it, the guard is dropped and the command returns
GetStatus ==
    /\ statusWaiting
    /\ recLock = Free
    /\ statusWaiting' = FALSE
    /\ UNCHANGED <<recLock, stopWaiting, cur, entry, idleIo, concVars>>
    /\ UNCHANGED <<recorderVars, queueVars, encVars, workerVars>>
    /\ UNCHANGED <<mixVars, serviceVars, clockVars, is_recording, cmd_ret, errLog>>

StatusNext ==
    \/ InvokeStatus
    \/ GetStatus
    \/ \E op \in {"start", "stop"} : Begin(op)
    \/ Release
    \/ StopAdapters
    \/ StopSignal
    \/ StopLockWriter
    \/ StopFinalize
    \/ StopClearMixer
    \/ StartCreate
    \/ StartMic
    \/ StartSys
    \/ MicCallback
    \/ SysCallback
    \/ \E w \in Sessions : WorkerLock(w)
    \/ \E w \in Sessions : WorkerLoop(w)
    \/ \E w \in Sessions : WorkerPop(w)
    \/ \E w \in Sessions : WorkerLockWriter(w)
    \/ \E w \in Sessions : WorkerWrite(w)

StatusSpec == Init /\ [][StatusNext]_vars

\* --------------------------------------- one session, sample by sample
\* MixSpec starts where start_recording has returned Ok for the first session
\* and follows its samples.  A sample is named by its position in its
\* source's delivery (1, 2, ...); its value is a multiple of 1/Unit.
Unit == 2                               \* the sample value 1.0
Followed == 1                           \* the session MixSpec follows

MicSample(i) == ((3 * i) % (2 * Unit + 1)) - Unit
SysSample(i) == ((2 * i + 1) % (2 * Unit + 1)) - Unit

\* f32::max, f32::min
FMax(a, b) == IF a >= b THEN a ELSE b
FMin(a, b) == IF a <= b THEN a ELSE b

\* Mutants of Mix: the two sources averaged instead of added, and the clip
\* written as max(-1.0).max(1.0).
Mix_Average(s_mic, s_sys) == FMin(FMax((s_mic + s_sys) \div 2, -Unit), Unit)

Mix_MaxTwice(s_mic, s_sys) == FMax(FMax(s_mic + s_sys, -Unit), Unit)

\* let mixed = s_mic + s_sys; let mixed = mixed.max(-1.0).min(1.0);
Mix(s_mic, s_sys) == FMin(FMax(s_mic + s_sys, -Unit), Unit)

\* Mutant of PassThrough: the lower clamp bound is 0.0.
PassThrough_Rectified(s_sys) == FMin(FMax(s_sys, 0), Unit)
\* system master mode: let mixed = s_sys; let mixed = mixed.max(-1.0).min(1.0);
PassThrough(s_sys) == FMin(FMax(s_sys, -Unit), Unit)

\* The strict-wait mixer's sum: let mixed = s_sys + s_mic; then the same clip.
MixStrict(s_sys, s_mic) == FMin(FMax(s_sys + s_mic, -Unit), Unit)

\* Mutants of Push: the newest sample goes in front of the buffered ones;
\* a full ring buffer makes room by giving up its oldest sample.
Push_Front(rb, x) == IF Len(rb) < RbCap THEN <<x>> \o rb ELSE rb

Push_Overwrite(rb, x) == IF Len(rb) < RbCap THEN Append(rb, x) ELSE Append(Tail(rb), x)

\* let _ = prod.push(sample): a full ring buffer refuses the sample.
Push(rb, x) == IF Len(rb) < RbCap THEN Append(rb, x) ELSE rb

\* The state start_recording leaves behind when it returns Ok on a fresh
\* recorder, for each combination of enabled sources.
MixInit ==
    /\ NoSamples
    /\ ServicesIdle
    /\ ClockZero
    /\ AppIdle
    /\ recLock = Free
    /\ stopWaiting = FALSE
    /\ cur = NoCall
    /\ entry = NoEntry
    /\ \E sysE \in BOOLEAN, micE \in BOOLEAN :
         /\ stream = IF sysE THEN Followed ELSE 0
         /\ mic_stream = IF micE THEN [dev |-> "MicA", ch |-> Followed]
                                 ELSE NoStream
         /\ mic_producer = IF micE THEN Followed ELSE 0
         /\ sys_enabled = [s \in Sessions |-> s = Followed /\ sysE]
         /\ mic_enabled = [s \in Sessions |-> s = Followed /\ micE]
    /\ mixer = Followed
    /\ mixerLock = Free
    /\ writer = Followed
    /\ slot = [a \in Slots |-> a = Followed]
    /\ wlock = [a \in Slots |-> Free]
    /\ paused = FALSE
    /\ mixer_running = Followed
    /\ running = [s \in Slots |-> s = Followed]
    /\ sysq = [s \in Sessions |-> 0]
    /\ micq = [s \in Sessions |-> 0]
    /\ nsess = Followed
    /\ finCount = [s \in Sessions |-> 0]
    /\ lateWrite = [s \in Sessions |-> FALSE]
    /\ wpc = [s \in Sessions |-> IF s = Followed THEN "spawned" ELSE "none"]
    /\ wmix = [s \in Sessions |-> 0]
    /\ idleIo = FALSE
    /\ concStop = 0
    /\ concLeft = 0

lifeVars == <<recorderVars, ctlVars, queueVars, encVars, workerVars, concVars,
              idleIo, clockVars, appVars>>

\* Mutants of MicData and SysData: the callback pushes without looking at
\* the paused flag.
MicData_IgnorePaused ==
    /\ mic_stream # NoStream
    /\ mic_cb = <<>>
    /\ \E n \in 1..MaxChunk :
         /\ mic_fed + n <= MaxFeed
         /\ mic_fed' = mic_fed + n
         /\ mic_cb' = [i \in 1..n |-> mic_fed + i]
         /\ skipped' = IF paused
                          THEN skipped \cup {<<"mic", mic_fed + i>> : i \in 1..n}
                          ELSE skipped
    /\ UNCHANGED <<sys_rb, mic_rb, sys_cb, sys_fed, mixed, out, pauseVars,
                   sys_buf, sys_asbd,
                   levelVars, serviceVars>>
    /\ UNCHANGED lifeVars

SysData_IgnorePaused ==
    /\ stream # 0
    /\ sys_cb = <<>>
    /\ \E n \in 1..MaxChunk :
         /\ sys_fed + n <= MaxFeed
         /\ sys_fed' = sys_fed + n
         /\ sys_cb' = [i \in 1..n |-> sys_fed + i]
         /\ skipped' = IF paused
                          THEN skipped \cup {<<"sys", sys_fed + i>> : i \in 1..n}
                          ELSE skipped
    /\ UNCHANGED <<sys_rb, mic_rb, mic_cb, mic_fed, mixed, out, pauseVars,
                   sys_buf, sys_asbd,
                   levelVars, serviceVars>>
    /\ UNCHANGED lifeVars

\* cpal input callback, first statement: if !mic_paused.load(Relaxed) { .. }
\* The callback is handed the next n samples of the microphone; one that
\* reads the flag set returns without pushing.
MicData ==
    /\ mic_stream # NoStream
    /\ mic_cb = <<>>
    /\ \E n \in 1..MaxChunk :
         /\ mic_fed + n <= MaxFeed
         /\ mic_fed' = mic_fed + n
         /\ IF paused
              THEN /\ skipped' = skipped \cup {<<"mic", mic_fed + i>> : i \in 1..n}
                   /\ UNCHANGED mic_cb
              ELSE /\ mic_cb' = [i \in 1..n |-> mic_fed + i]
                   /\ UNCHANGED skipped
    /\ UNCHANGED <<sys_rb, mic_rb, sys_cb, sys_fed, mixed, out, pauseVars,
                   sys_buf, sys_asbd,
                   levelVars, serviceVars>>
    /\ UNCHANGED lifeVars

\* for &sample in data { let _ = prod.push(sample); }   (one iteration)
MicPush ==
    /\ mic_stream # NoStream
    /\ mic_cb # <<>>
    /\ mic_rb' = Push(mic_rb, Head(mic_cb))
    /\ mic_cb' = Tail(mic_cb)
    /\ UNCHANGED <<sys_rb, sys_cb, sys_fed, mic_fed, mixed, out, skipped, pauseVars,
                   sys_buf, sys_asbd,
                   levelVars, serviceVars>>
    /\ UNCHANGED lifeVars

\* OutputWrapper::did_output_sample_buffer up to
\* if !self.paused.load(Relaxed) { .. }, for a buffer of interleaved samples
SysData ==
    /\ stream # 0
    /\ sys_cb = <<>>
    /\ \E n \in 1..MaxChunk :
         /\ sys_fed + n <= MaxFeed
         /\ sys_fed' = sys_fed + n
         /\ IF paused
              THEN /\ skipped' = skipped \cup {<<"sys", sys_fed + i>> : i \in 1..n}
                   /\ UNCHANGED sys_cb
              ELSE /\ sys_cb' = [i \in 1..n |-> sys_fed + i]
                   /\ UNCHANGED skipped
    /\ UNCHANGED <<sys_rb, mic_rb, mic_cb, mic_fed, mixed, out, pauseVars,
                   sys_buf, sys_asbd,
                   levelVars, serviceVars>>
    /\ UNCHANGED lifeVars

\* for &sample in samples { let _ = prod.push(sample); }   (one iteration)
SysPush ==
    /\ stream # 0
    /\ sys_cb # <<>>
    /\ sys_rb' = Push(sys_rb, Head(sys_cb))
    /\ sys_cb' = Tail(sys_cb)
    /\ UNCHANGED <<mic_rb, mic_cb, sys_fed, mic_fed, mixed, out, skipped, pauseVars,
                   sys_buf, sys_asbd,
                   levelVars, serviceVars>>
    /\ UNCHANGED lifeVars

\* The master channel of mixer m, with its samples.
MasterRb(m) ==
    IF Master(m) = "mic" THEN mic_rb ELSE IF Master(m) = "sys" THEN sys_rb ELSE <<>>

\* Mutant of MixLoop: the strict-wait policy, every enabled source must have
\* a sample before the loop goes on.
MixLoop_StrictWait ==
    /\ wpc[Followed] = "loop"
    /\ IF ~running[wmix[Followed]]
         THEN /\ mixerLock' = Free
              /\ wpc' = [wpc EXCEPT ![Followed] = "done"]
              /\ wmix' = [wmix EXCEPT ![Followed] = 0]
         ELSE /\ MasterRb(wmix[Followed]) # <<>>
              /\ sys_enabled[wmix[Followed]] => sys_rb # <<>>
              /\ wpc' = [wpc EXCEPT ![Followed] = "drain"]
              /\ UNCHANGED <<mixerLock, wmix>>
    /\ UNCHANGED <<stream, mic_stream, mixer, writer, slot, wlock, paused,
                   mixer_running, running, mic_producer, sys_enabled,
                   mic_enabled, nsess>>
    /\ UNCHANGED <<ctlVars, queueVars, encVars, concVars, idleIo>>
    /\ UNCHANGED <<mixVars, serviceVars, clockVars, appVars>>

\* while self.running.load(..) { if master.is_empty() { sleep; continue } .. }
MixLoop ==
    /\ wpc[Followed] = "loop"
    /\ IF ~running[wmix[Followed]]
         THEN /\ mixerLock' = Free
              /\ wpc' = [wpc EXCEPT ![Followed] = "done"]
              /\ wmix' = [wmix EXCEPT ![Followed] = 0]
         ELSE /\ MasterRb(wmix[Followed]) # <<>>
              /\ wpc' = [wpc EXCEPT ![Followed] = "drain"]
              /\ UNCHANGED <<mixerLock, wmix>>
    /\ UNCHANGED <<stream, mic_stream, mixer, writer, slot, wlock, paused,
                   mixer_running, running, mic_producer, sys_enabled,
                   mic_enabled, nsess>>
    /\ UNCHANGED <<ctlVars, queueVars, encVars, concVars, idleIo>>
    /\ UNCHANGED <<mixVars, serviceVars, clockVars, appVars>>

\* while !master.is_empty() { let s_mic = mic_consumer.pop().unwrap_or(0.0);
\* let s_sys = if sys_enabled { sys_consumer.pop().unwrap_or(0.0) } else { 0.0 };
\* mixed = clip(s_mic + s_sys) }, and in system master mode
\* let s_sys = sys_consumer.pop().unwrap_or(0.0); mixed = clip(s_sys)
MixPop ==
    /\ wpc[Followed] = "drain"
    /\ LET m == wmix[Followed] IN
       IF MasterRb(m) = <<>>
         THEN /\ wpc' = [wpc EXCEPT ![Followed] = "loop"]
              /\ UNCHANGED <<sys_rb, mic_rb, mixed>>
         ELSE /\ wpc' = [wpc EXCEPT ![Followed] = "mixed"]
              /\ IF Master(m) = "mic"
                   THEN LET got == sys_enabled[m] /\ sys_rb # <<>>
                            s_mic == MicSample(Head(mic_rb))
                            s_sys == IF got THEN SysSample(Head(sys_rb)) ELSE 0
                        IN  /\ mic_rb' = Tail(mic_rb)
                            /\ sys_rb' = IF got THEN Tail(sys_rb) ELSE sys_rb
                            /\ mixed' = [v |-> Mix(s_mic, s_sys),
                                         mic |-> Head(mic_rb),
                                         sys |-> IF got THEN Head(sys_rb) ELSE 0]
                   ELSE /\ sys_rb' = Tail(sys_rb)
                        /\ UNCHANGED mic_rb
                        /\ mixed' = [v |-> PassThrough(SysSample(Head(sys_rb))),
                                     mic |-> 0, sys |-> Head(sys_rb)]
    /\ UNCHANGED <<sys_cb, mic_cb, sys_fed, mic_fed, out, skipped, pauseVars,
                   sys_buf, sys_asbd,
                   levelVars, serviceVars>>
    /\ UNCHANGED <<recorderVars, ctlVars, queueVars, encVars, wmix, concVars,
                   idleIo, clockVars, appVars>>

\* Mutant of MixWrite: the sample is handed to write_sample twice.
MixWrite_Twice ==
    /\ wpc[Followed] = "wlocked"
    /\ LET m == wmix[Followed] IN
       /\ wlock' = [wlock EXCEPT ![m] = Free]
       /\ IF slot[m]
            THEN /\ out' = Append(Append(out, mixed), mixed)
                 /\ pGrown' = IF paused THEN pGrown + 1 ELSE pGrown
                 /\ lateWrite' = [lateWrite EXCEPT ![m] = @ \/ finCount[m] > 0]
                 /\ idleIo' = (idleIo \/ (recLock = Ctl /\ entry.idle))
            ELSE UNCHANGED <<out, pGrown, lateWrite, idleIo>>
    /\ mixed' = Idle
    /\ wpc' = [wpc EXCEPT ![Followed] = "drain"]
    /\ UNCHANGED <<stream, mic_stream, mixer, mixerLock, writer, slot, paused,
                   mixer_running, running, mic_producer, sys_enabled,
                   mic_enabled, nsess>>
    /\ UNCHANGED <<ctlVars, queueVars, finCount, wmix, concVars, clockVars,
                   appVars>>
    /\ UNCHANGED <<rbVars, skipped, pBuffered, pInFlight, sys_buf, sys_asbd,
                   levelVars, serviceVars>>

\* if let Some(writer) = &mut *guard { let _ = writer.write_sample(mixed); }
MixWrite ==
    /\ wpc[Followed] = "wlocked"
    /\ LET m == wmix[Followed] IN
       /\ wlock' = [wlock EXCEPT ![m] = Free]
       /\ IF slot[m]
            THEN /\ out' = Append(out, mixed)
                 /\ pGrown' = IF paused THEN pGrown + 1 ELSE pGrown
                 /\ lateWrite' = [lateWrite EXCEPT ![m] = @ \/ finCount[m] > 0]
                 /\ idleIo' = (idleIo \/ (recLock = Ctl /\ entry.idle))
            ELSE UNCHANGED <<out, pGrown, lateWrite, idleIo>>
    /\ mixed' = Idle
    /\ wpc' = [wpc EXCEPT ![Followed] = "drain"]
    /\ UNCHANGED <<stream, mic_stream, mixer, mixerLock, writer, slot, paused,
                   mixer_running, running, mic_producer, sys_enabled,
                   mic_enabled, nsess>>
    /\ UNCHANGED <<ctlVars, queueVars, finCount, wmix, concVars, clockVars,
                   appVars>>
    /\ UNCHANGED <<rbVars, skipped, pBuffered, pInFlight, sys_buf, sys_asbd,
                   levelVars, serviceVars>>

MixNext ==
    \/ Pause
    \/ Resume
    \/ Begin("stop")
    \/ StopAdapters
    \/ StopSignal
    \/ StopLockWriter
    \/ StopFinalize
    \/ StopClearMixer
    \/ Release
    \/ MicData
    \/ MicPush
    \/ SysData
    \/ SysPush
    \/ WorkerLock(Followed)
    \/ MixLoop
    \/ MixPop
    \/ WorkerLockWriter(Followed)
    \/ MixWrite

MixSpec == MixInit /\ [][MixNext]_vars

\* The mixer thread is an operating-system thread of its own: whenever it can
\* take its next step it eventually does.  Nothing is assumed of the
\* callbacks or of the control thread.
MixFair ==
    /\ MixSpec
    /\ WF_vars(WorkerLock(Followed))
    /\ WF_vars(MixLoop)
    /\ WF_vars(MixPop)
    /\ WF_vars(WorkerLockWriter(Followed))
    /\ WF_vars(MixWrite)

\* ------------------------------------------------- the system adapter
\* AdaptSpec follows a session that captures system audio only, for every
\* buffer format ScreenCaptureKit can hand to did_output_sample_buffer.  The
\* samples of a buffer are named in buffer order, continuing the count of
\* the samples delivered before.  Nobody pauses here: what the adapters do
\* around a pause is followed in MixSpec.
MaxFrames == 2                          \* frames in the longest stereo buffer
Channels == {1, 2, 6}                   \* asbd.mChannelsPerFrame
\* asbd.mFormatFlags: float | packed, and float | packed | non-interleaved
FormatFlags == {9, 41}
Descs == {NoDesc} \cup [mFormatFlags : FormatFlags, mChannelsPerFrame : Channels]

\* Mutant of FormatOf: a buffer without description is taken for planar.
FormatOf_PlanarDefault(asbd) ==
    IF asbd = NoDesc
      THEN [is_planar |-> TRUE, channels |-> 2]
      ELSE [is_planar |-> (asbd.mFormatFlags \div 32) % 2 = 1,
            channels |-> asbd.mChannelsPerFrame]

\* let mut is_planar = false; let mut channels = 2; if !asbd_ptr.is_null() {
\* channels = asbd.mChannelsPerFrame; is_planar = (asbd.mFormatFlags & (1 << 5)) != 0 }
FormatOf(asbd) ==
    IF asbd = NoDesc
      THEN [is_planar |-> FALSE, channels |-> 2]
      ELSE [is_planar |-> (asbd.mFormatFlags \div 32) % 2 = 1,
            channels |-> asbd.mChannelsPerFrame]

RECURSIVE PlanarFrom(_, _, _)
\* Mutant of PlanarFrom: the two planes are pushed as they lie in the buffer.
PlanarFrom_AsIs(samples, num_frames, i) == SubSeq(samples, 2 * i + 1, 2 * num_frames)

\* for i in 0..num_frames { push(left[i]); push(right[i]); }, from iteration i
\* on, with left = &samples[0..num_frames], right = &samples[num_frames..]
PlanarFrom(samples, num_frames, i) ==
    IF i >= num_frames
      THEN <<>>
      ELSE <<samples[i + 1], samples[num_frames + i + 1]>>
             \o PlanarFrom(samples, num_frames, i + 1)

RECURSIVE MonoFrom(_)
\* Mutant of MonoFrom: a mono sample is pushed once.
MonoFrom_Once(samples) == samples

\* for &sample in samples { push(sample); push(sample); }
MonoFrom(samples) ==
    IF samples = <<>>
      THEN <<>>
      ELSE <<Head(samples), Head(samples)>> \o MonoFrom(Tail(samples))

\* The push calls the callback makes for a buffer, in order.
PushOrder(buf) ==
    IF buf.planar /\ buf.channels = 2
      THEN PlanarFrom(buf.samples, Len(buf.samples) \div 2, 0)
      ELSE IF buf.channels = 1
             THEN MonoFrom(buf.samples)
             ELSE buf.samples

\* did_output_sample_buffer up to the push loops: the block buffer's samples
\* and the format description are read, then the paused flag, once.
AdaptData ==
    /\ stream # 0
    /\ sys_cb = <<>>
    /\ sys_fed < MaxFeed
    /\ \E n \in 1..(2 * MaxFrames), asbd \in Descs :
         LET buf == [samples |-> [i \in 1..n |-> sys_fed + i],
                     planar |-> FormatOf(asbd).is_planar,
                     channels |-> FormatOf(asbd).channels]
         IN  /\ sys_fed' = sys_fed + n
             /\ IF paused
                  THEN /\ skipped' = skipped \cup {<<"sys", sys_fed + i>> : i \in 1..n}
                       /\ sys_buf' = NoBuf
                       /\ sys_asbd' = NoDesc
                       /\ UNCHANGED sys_cb
                  ELSE /\ sys_cb' = PushOrder(buf)
                       /\ sys_buf' = buf
                       /\ sys_asbd' = asbd
                       /\ UNCHANGED skipped
    /\ UNCHANGED <<sys_rb, mic_rb, mic_cb, mic_fed, mixed, out, pauseVars, levelVars, serviceVars>>
    /\ UNCHANGED lifeVars

\* start_recording has returned Ok with system capture and no microphone.
AdaptInit ==
    /\ MixInit
    /\ sys_enabled[Followed]
    /\ ~mic_enabled[Followed]

AdaptNext ==
    \/ AdaptData
    \/ SysPush
    \/ WorkerLock(Followed)
    \/ MixLoop
    \/ MixPop
    \/ WorkerLockWriter(Followed)
    \/ MixWrite

AdaptSpec == AdaptInit /\ [][AdaptNext]_vars

\* ---------------------------------------------- stop with samples waiting
\* DrainSpec starts in the middle of a session: the worker is inside process
\* at the head of its loop, having found the master channel empty, and the
\* callbacks have since pushed samples into the channels and returned.  The
\* sources deliver nothing more, so every sample there is has been pushed
\* before anything DrainSpec does; then stop is called.
DrainInit ==
    /\ ClockZero
    /\ AppIdle
    /\ sys_buf = NoBuf
    /\ sys_asbd = NoDesc
    /\ emitted = 0
    /\ ServicesIdle
    /\ recLock = Free
    /\ stopWaiting = FALSE
    /\ cur = NoCall
    /\ entry = NoEntry
    /\ \E sysE \in BOOLEAN, micE \in BOOLEAN, nm \in 0..RbCap, ns \in 0..RbCap :
         /\ sysE \/ micE
         /\ micE \/ nm = 0
         /\ sysE \/ ns = 0
         /\ IF micE THEN nm > 0 ELSE ns > 0
         /\ stream = IF sysE THEN Followed ELSE 0
         /\ mic_stream = IF micE THEN [dev |-> "MicA", ch |-> Followed]
                                 ELSE NoStream
         /\ mic_producer = IF micE THEN Followed ELSE 0
         /\ sys_enabled = [s \in Sessions |-> s = Followed /\ sysE]
         /\ mic_enabled = [s \in Sessions |-> s = Followed /\ micE]
         /\ mic_rb = [i \in 1..nm |-> i] /\ mic_fed = nm
         /\ sys_rb = [i \in 1..ns |-> i] /\ sys_fed = ns
    /\ mixer = Followed
    /\ mixerLock = Followed
    /\ writer = Followed
    /\ slot = [a \in Slots |-> a = Followed]
    /\ wlock = [a \in Slots |-> Free]
    /\ paused = FALSE
    /\ mixer_running = Followed
    /\ running = [s \in Slots |-> s = Followed]
    /\ sysq = [s \in Sessions |-> 0]
    /\ micq = [s \in Sessions |-> 0]
    /\ nsess = Followed
    /\ finCount = [s \in Sessions |-> 0]
    /\ lateWrite = [s \in Sessions |-> FALSE]
    /\ wpc = [s \in Sessions |-> IF s = Followed THEN "loop" ELSE "none"]
    /\ wmix = [s \in Sessions |-> IF s = Followed THEN Followed ELSE 0]
    /\ idleIo = FALSE
    /\ concStop = 0
    /\ concLeft = 0
    /\ sys_cb = <<>> /\ mic_cb = <<>>
    /\ mixed = Idle
    /\ out = <<>>
    /\ skipped = {}
    /\ pBuffered = 0 /\ pInFlight = 0 /\ pGrown = 0

DrainNext ==
    \/ Begin("stop")
    \/ StopAdapters
    \/ StopSignal
    \/ StopLockWriter
    \/ StopFinalize
    \/ StopClearMixer
    \/ Release
    \/ MixLoop
    \/ MixPop
    \/ WorkerLockWriter(Followed)
    \/ MixWrite

DrainSpec == DrainInit /\ [][DrainNext]_vars

\* ------------------------------------------------- the strict-wait mixer
\* StrictSpec follows one session with both sources enabled whose worker runs
\* the process loop of src-tauri/src/mixer.rs.
\* Mutant of StrictReady: only the microphone has to have a sample.
StrictReady_MicOnly(m) == ~mic_enabled[m] \/ mic_rb # <<>>

\* let sys_ready = !self.sys_enabled || !self.sys_consumer.is_empty();
\* let mic_ready = !self.mic_enabled || !self.mic_consumer.is_empty();
\* and sys_has_data, mic_has_data in the inner loop alike
StrictReady(m) ==
    /\ ~sys_enabled[m] \/ sys_rb # <<>>
    /\ ~mic_enabled[m] \/ mic_rb # <<>>

\* while self.running.load(..) { if !sys_ready || !mic_ready { sleep; continue } .. }
StrictLoop ==
    /\ wpc[Followed] = "loop"
    /\ IF ~running[wmix[Followed]]
         THEN /\ mixerLock' = Free
              /\ wpc' = [wpc EXCEPT ![Followed] = "done"]
              /\ wmix' = [wmix EXCEPT ![Followed] = 0]
         ELSE /\ StrictReady(wmix[Followed])
              /\ wpc' = [wpc EXCEPT ![Followed] = "drain"]
              /\ UNCHANGED <<mixerLock, wmix>>
    /\ UNCHANGED <<stream, mic_stream, mixer, writer, slot, wlock, paused,
                   mixer_running, running, mic_producer, sys_enabled,
                   mic_enabled, nsess>>
    /\ UNCHANGED <<ctlVars, queueVars, encVars, concVars, idleIo>>
    /\ UNCHANGED <<mixVars, serviceVars, clockVars, appVars>>

\* loop { if !sys_has_data || !mic_has_data { break; }
\* let s_sys = if sys_enabled { sys_consumer.pop().unwrap_or(0.0) } else { 0.0 };
\* let s_mic = if mic_enabled { mic_consumer.pop().unwrap_or(0.0) } else { 0.0 };
\* mixed = clip(s_sys + s_mic) }
StrictPop ==
    /\ wpc[Followed] = "drain"
    /\ LET m == wmix[Followed] IN
       IF ~StrictReady(m)
         THEN /\ wpc' = [wpc EXCEPT ![Followed] = "loop"]
              /\ UNCHANGED <<sys_rb, mic_rb, mixed>>
         ELSE LET gotSys == sys_enabled[m] /\ sys_rb # <<>>
                  gotMic == mic_enabled[m] /\ mic_rb # <<>>
                  s_sys == IF gotSys THEN SysSample(Head(sys_rb)) ELSE 0
                  s_mic == IF gotMic THEN MicSample(Head(mic_rb)) ELSE 0
              IN  /\ wpc' = [wpc EXCEPT ![Followed] = "mixed"]
                  /\ sys_rb' = IF gotSys THEN Tail(sys_rb) ELSE sys_rb
                  /\ mic_rb' = IF gotMic THEN Tail(mic_rb) ELSE mic_rb
                  /\ mixed' = [v |-> MixStrict(s_sys, s_mic),
                               mic |-> IF gotMic THEN Head(mic_rb) ELSE 0,
                               sys |-> IF gotSys THEN Head(sys_rb) ELSE 0]
    /\ UNCHANGED <<sys_cb, mic_cb, sys_fed, mic_fed, out, skipped, pauseVars,
                   sys_buf, sys_asbd, levelVars, serviceVars>>
    /\ UNCHANGED <<recorderVars, ctlVars, queueVars, encVars, wmix, concVars,
                   idleIo, clockVars, appVars>>

\* start_recording has returned Ok with both sources.
StrictInit ==
    /\ MixInit
    /\ sys_enabled[Followed]
    /\ mic_enabled[Followed]

StrictNext ==
    \/ MicData
    \/ MicPush
    \/ SysData
    \/ SysPush
    \/ WorkerLock(Followed)
    \/ StrictLoop
    \/ StrictPop
    \/ WorkerLockWriter(Followed)
    \/ MixWrite

StrictSpec == StrictInit /\ [][StrictNext]_vars

\* ------------------------------------------- the mix of one pair of samples
\* ClipSpec applies one pass of the drain loop to every pair of sample values
\* in [-1.0, 1.0]: both sources enabled, the worker at the head of the loop,
\* one sample waiting in each channel (the i-th of the microphone, the j-th
\* of the system source, after a pause in which the earlier ones were
\* discarded).
SampleIds == 1..(2 * Unit + 1)

ClipInit ==
    /\ ClockZero
    /\ AppIdle
    /\ sys_buf = NoBuf
    /\ sys_asbd = NoDesc
    /\ emitted = 0
    /\ ServicesIdle
    /\ recLock = Free
    /\ stopWaiting = FALSE
    /\ cur = NoCall
    /\ entry = NoEntry
    /\ stream = Followed
    /\ mic_stream = [dev |-> "MicA", ch |-> Followed]
    /\ mic_producer = Followed
    /\ sys_enabled = [s \in Sessions |-> s = Followed]
    /\ mic_enabled = [s \in Sessions |-> s = Followed]
    /\ mixer = Followed
    /\ mixerLock = Followed
    /\ writer = Followed
    /\ slot = [a \in Slots |-> a = Followed]
    /\ wlock = [a \in Slots |-> Free]
    /\ paused = FALSE
    /\ mixer_running = Followed
    /\ running = [s \in Slots |-> s = Followed]
    /\ sysq = [s \in Sessions |-> 0]
    /\ micq = [s \in Sessions |-> 0]
    /\ nsess = Followed
    /\ finCount = [s \in Sessions |-> 0]
    /\ lateWrite = [s \in Sessions |-> FALSE]
    /\ wpc = [s \in Sessions |-> IF s = Followed THEN "drain" ELSE "none"]
    /\ wmix = [s \in Sessions |-> IF s = Followed THEN Followed ELSE 0]
    /\ idleIo = FALSE
    /\ concStop = 0
    /\ concLeft = 0
    /\ \E i \in SampleIds, j \in SampleIds :
         /\ mic_rb = <<i>> /\ mic_fed = i
         /\ sys_rb = <<j>> /\ sys_fed = j
         /\ skipped = {<<"mic", k>> : k \in 1..(i - 1)}
                         \cup {<<"sys", k>> : k \in 1..(j - 1)}
    /\ sys_cb = <<>> /\ mic_cb = <<>>
    /\ mixed = Idle
    /\ out = <<>>
    /\ pBuffered = 0 /\ pInFlight = 0 /\ pGrown = 0

ClipNext ==
    \/ MixPop
    \/ WorkerLockWriter(Followed)
    \/ MixWrite

ClipSpec == ClipInit /\ [][ClipNext]_vars

\* ------------------------------------------------- upload of a recording
\* SyncService::upload_recording and upload_recording_command run the same
\* steps on the recording create_draft inserted.  Each action is what the
\* call does between two awaits; what the disk and the server answer is
\* drawn where the call reads it.  The statements on the pool succeed unless
\* the schema rejects them.
audioVars == <<lifeVars, mixVars>>

\* The row create_draft inserted and the file the recorder finalized.
Draft == 1
DraftRow(keep) ==
    [used |-> TRUE, remote_job_id |-> 0, sync_status |-> "DRAFT_READY",
     local_file_path |-> "recording.wav", keep_offline |-> keep]
Recorded == [exists |-> TRUE, data |-> <<"RIFF">>]

\* UPDATE cached_recordings SET sync_status = ? WHERE local_id = ?
update_sync_status(local_id, status) ==
    IF rows[local_id].used
    THEN [rows EXCEPT ![local_id].sync_status = status]
    ELSE rows

\* The rows whose remote_job_id is remote_id.
Holding(remote_id) ==
    {i \in LocalIds : rows[i].used /\ rows[i].remote_job_id = remote_id}

\* UPDATE cached_recordings SET remote_job_id = ?, sync_status = ?,
\* local_file_path = NULL WHERE local_id = ?
finalize_upload(local_id, remote_id) ==
    IF rows[local_id].used
    THEN [rows EXCEPT ![local_id].remote_job_id = remote_id,
                      ![local_id].sync_status = "PROCESSING_REMOTE",
                      ![local_id].local_file_path = ""]
    ELSE rows

UploadReturns(res) == [up EXCEPT !.pc = "ret", !.result = res]

\* Steps 1 to 3: load the settings, get the recording, check the file.
UploadBegin ==
    /\ up.pc \in {"idle", "ret"}
    /\ up.calls < MaxUploads
    /\ \E configured \in BOOLEAN :
         LET r == rows[Draft]
             call == [NoUpload EXCEPT !.calls = up.calls + 1]
         IN  up' = IF ~configured
                   THEN [call EXCEPT !.pc = "ret", !.result = "Validation"]
                   ELSE IF \/ ~r.used
                           \/ r.local_file_path = ""
                           \/ ~fs[r.local_file_path].exists
                   THEN [call EXCEPT !.pc = "ret", !.result = "NotFound"]
                   ELSE [call EXCEPT !.pc = "mark",
                                     !.keep_offline = r.keep_offline]
    /\ UNCHANGED <<fs, rows, jobs, remote_unique, sy, storeVars, audioVars>>

\* Step 4: update_sync_status(local_id, SyncStatus::Uploading)
UploadMark ==
    /\ up.pc = "mark"
    /\ rows' = update_sync_status(Draft, "UPLOADING")
    /\ up' = [up EXCEPT !.pc = "read", !.marked = TRUE]
    /\ UNCHANGED <<fs, jobs, remote_unique, sy, storeVars, audioVars>>

\* Step 6: tokio::fs::read(&file_path).await?
UploadRead ==
    /\ up.pc = "read"
    /\ \E readable \in BOOLEAN :
         up' = IF readable /\ fs["recording.wav"].exists
               THEN [up EXCEPT !.pc = "send"]
               ELSE UploadReturns("Io")
    /\ UNCHANGED <<fs, rows, jobs, remote_unique, sy, storeVars, audioVars>>

\* Step 7: the request is sent.  It fails, or the server refuses it, or the
\* server creates a job and answers; the answer is JSON with a string "id",
\* JSON without one, or no JSON.
UploadSend ==
    /\ up.pc = "send"
    /\ \/ /\ \E answer \in {"error", "refused"} :
                up' = [up EXCEPT !.pc = "mark_failed"]
          /\ jobs' = jobs
       \/ \E j \in JobIds, body \in {"id", "no_id", "no_json"} :
            /\ jobs[j] = "absent"
            /\ \A k \in 1..(j - 1) : jobs[k] # "absent"
            /\ jobs' = [jobs EXCEPT ![j] = "live"]
            /\ up' = IF body = "id"
                     THEN [up EXCEPT !.pc = "finalize", !.remote_id = j]
                     ELSE UploadReturns("Network")
    /\ UNCHANGED <<fs, rows, remote_unique, sy, storeVars, audioVars>>

\* update_sync_status(local_id, SyncStatus::Failed) and the Err that follows
UploadMarkFailed ==
    /\ up.pc = "mark_failed"
    /\ rows' = update_sync_status(Draft, "FAILED")
    /\ up' = UploadReturns("Network")
    /\ UNCHANGED <<fs, jobs, remote_unique, sy, storeVars, audioVars>>

\* self.db.finalize_upload(local_id, remote_id).await?
UploadFinalize ==
    /\ up.pc = "finalize"
    /\ IF remote_unique /\ Holding(up.remote_id) \ {Draft} # {}
       THEN rows' = rows /\ up' = UploadReturns("Database")
       ELSE /\ rows' = finalize_upload(Draft, up.remote_id)
            /\ up' = [up EXCEPT !.pc = "prune"]
    /\ UNCHANGED <<fs, jobs, remote_unique, sy, storeVars, audioVars>>

\* Prune the local file if it is not kept offline.
UploadPrune ==
    /\ up.pc = "prune"
    /\ fs' = IF up.keep_offline THEN fs
             ELSE [fs EXCEPT !["recording.wav"] = NoFile]
    /\ up' = [up EXCEPT !.pc = "get"]
    /\ UNCHANGED <<rows, jobs, remote_unique, sy, storeVars, audioVars>>

\* Ok(self.db.get_recording(local_id).await?)
UploadGet ==
    /\ up.pc = "get"
    /\ up' = UploadReturns(IF rows[Draft].used THEN "Ok" ELSE "Database")
    /\ UNCHANGED <<fs, rows, jobs, remote_unique, sy, storeVars, audioVars>>

\* A recording has been made and drafted; nothing else has happened.
UploadInit ==
    /\ AppStart
    /\ fs = [f \in FileNames |->
               IF f = "recording.wav" THEN Recorded ELSE NoFile]
    /\ \E keep \in BOOLEAN :
         rows = [i \in LocalIds |-> IF i = Draft THEN DraftRow(keep) ELSE NoRow]
    /\ jobs = [j \in JobIds |-> "absent"]
    /\ remote_unique \in BOOLEAN
    /\ up = NoUpload
    /\ sy = NoPass
    /\ sv = NoSave
    /\ loaded = NotLoaded

UploadNext ==
    \/ UploadBegin
    \/ UploadMark
    \/ UploadRead
    \/ UploadSend
    \/ UploadMarkFailed
    \/ UploadFinalize
    \/ UploadPrune
    \/ UploadGet

UploadSpec == UploadInit /\ [][UploadNext]_vars

\* ------------------------------------------------- the background sync
\* SyncService::sync_jobs_internal lists the jobs of the remote service and
\* brings the table up to date, one statement at a time, while an upload
\* may be running on another task.
RemoteStatuses == {"uploaded", "completed", "queued"}

\* SyncStatus::from(status_str.to_string()).to_string()
SyncStatusFrom(status_str) ==
    CASE status_str \in {"REMOTE_PENDING", "uploaded", "pending"} -> "REMOTE_PENDING"
      [] status_str \in {"PROCESSING_REMOTE", "processing"} -> "PROCESSING_REMOTE"
      [] status_str \in {"COMPLETED_SYNCED", "completed"} -> "COMPLETED_SYNCED"
      [] status_str \in {"FAILED", "failed"} -> "FAILED"
      [] status_str = "UPLOADING" -> "UPLOADING"
      [] OTHER -> "DRAFT_READY"

\* The jobs one page of /api/v1/transcription/list carries, in id order.
RECURSIVE JobList(_)
JobList(n) ==
    IF n = 0 THEN <<>>
    ELSE JobList(n - 1) \o
         (IF jobs[n] = "absent" THEN <<>>
          ELSE <<[id |-> n, deleted |-> (jobs[n] = "deleted")]>>)

\* The for loop moves on to the next job; after the last one the pass ends
\* (count < limit).
NextJob(pass) ==
    [pass EXCEPT !.todo = Tail(pass.todo),
                 !.pc = IF Len(pass.todo) = 1 THEN "idle" ELSE "next"]

\* Somebody deletes a job on the remote service.
RemoteDelete ==
    /\ \E j \in JobIds :
         /\ jobs[j] = "live"
         /\ jobs' = [jobs EXCEPT ![j] = "deleted"]
    /\ UNCHANGED <<fs, rows, remote_unique, up, sy, storeVars, audioVars>>

\* The request for the list: it fails, or it brings the jobs.
SyncList ==
    /\ sy.pc = "idle"
    /\ sy.passes < MaxPasses
    /\ \E ok \in BOOLEAN :
         sy' = IF ok /\ JobList(MaxJobs) # <<>>
               THEN [NoPass EXCEPT !.pc = "next", !.todo = JobList(MaxJobs),
                                   !.passes = sy.passes + 1]
               ELSE [NoPass EXCEPT !.passes = sy.passes + 1]
    /\ UNCHANGED <<fs, rows, jobs, remote_unique, up, storeVars, audioVars>>

\* db.delete_remote_recording(&job.id) for a job that has deleted_at
SyncDelete ==
    /\ sy.pc = "next"
    /\ Head(sy.todo).deleted
    /\ rows' = [i \in LocalIds |->
                  IF i \in Holding(Head(sy.todo).id) THEN NoRow ELSE rows[i]]
    /\ sy' = NextJob(sy)
    /\ UNCHANGED <<fs, jobs, remote_unique, up, storeVars, audioVars>>

\* upsert_remote_recording, first statement: SELECT local_id ... WHERE
\* remote_job_id = ?, fetch_optional.
SyncSelect ==
    /\ sy.pc = "next"
    /\ ~Head(sy.todo).deleted
    /\ \E status_str \in RemoteStatuses,
          found \in IF Holding(Head(sy.todo).id) = {} THEN {0}
                    ELSE Holding(Head(sy.todo).id) :
         sy' = [sy EXCEPT !.pc = "write", !.existing = found,
                          !.status = SyncStatusFrom(status_str)]
    /\ UNCHANGED <<fs, rows, jobs, remote_unique, up, storeVars, audioVars>>

\* upsert_remote_recording, second statement: UPDATE the row found, or
\* INSERT a row with a new local_id.  A rejected statement ends the pass.
SyncWrite ==
    /\ sy.pc = "write"
    /\ IF sy.existing # 0
       THEN /\ rows' = update_sync_status(sy.existing, sy.status)
            /\ sy' = NextJob(sy)
       ELSE IF remote_unique /\ Holding(Head(sy.todo).id) # {}
       THEN rows' = rows /\ sy' = [sy EXCEPT !.pc = "idle", !.todo = <<>>]
       ELSE \E i \in LocalIds :
              /\ ~rows[i].used
              /\ \A k \in 1..(i - 1) : rows[k].used
              /\ rows' = [rows EXCEPT ![i] =
                            [used |-> TRUE, remote_job_id |-> Head(sy.todo).id,
                             sync_status |-> sy.status, local_file_path |-> "",
                             keep_offline |-> FALSE]]
              /\ sy' = NextJob(sy)
    /\ UNCHANGED <<fs, jobs, remote_unique, up, storeVars, audioVars>>

SyncNext ==
    \/ UploadNext
    \/ RemoteDelete
    \/ SyncList
    \/ SyncDelete
    \/ SyncSelect
    \/ SyncWrite

SyncSpec == UploadInit /\ [][SyncNext]_vars

\* ------------------------------------------------------- the ledger file
\* StorageService keeps the ledger as JSON in ledger.json and replaces it
\* through ledger.json.tmp.  The text is followed token by token: "[", one
\* token per entry (the directory its file_path lies in), "]".
Dirs == {"a", "b"}

\* serde_json::to_string_pretty(entries)
Serialize(entries) == <<"[">> \o entries \o <<"]">>

\* serde_json::from_str(&content)
Parse(content) ==
    IF /\ Len(content) >= 2
       /\ content[1] = "["
       /\ content[Len(content)] = "]"
       /\ \A k \in 2..(Len(content) - 1) : content[k] \in Dirs
    THEN [result |-> "Ok", entries |-> SubSeq(content, 2, Len(content) - 1)]
    ELSE [result |-> "Json", entries |-> <<>>]

\* if tmp_path.exists() { let _ = std::fs::rename(&tmp_path, &path); }
Promote(f) ==
    IF f["ledger.json.tmp"].exists
    THEN [f EXCEPT !["ledger.json"] = f["ledger.json.tmp"],
                   !["ledger.json.tmp"] = NoFile]
    ELSE f

\* What load_ledger returns when it finds the files f.
load_ledger(f) ==
    IF ~Promote(f)["ledger.json"].exists
    THEN [result |-> "Ok", entries |-> <<>>]
    ELSE Parse(Promote(f)["ledger.json"].data)

\* The entries under the old output folder get their path in the new one.
Moved(entries, old, new) ==
    [k \in 1..Len(entries) |-> IF entries[k] = old THEN new ELSE entries[k]]

\* The output folder changes: the ledger is loaded, the paths of its entries
\* are rewritten, and save_ledger is entered with the result.
SaveBegin ==
    /\ sv.pc \in {"idle", "loaded"}
    /\ sv.saves < MaxSaves
    /\ fs' = Promote(fs)
    /\ IF load_ledger(fs).result # "Ok"
       THEN sv' = [NoSave EXCEPT !.saves = sv.saves + 1]
       ELSE \E old \in Dirs, new \in Dirs :
              /\ old # new
              /\ sv' = [pc |-> "create", prev |-> load_ledger(fs).entries,
                        json |-> Serialize(Moved(load_ledger(fs).entries,
                                                 old, new)),
                        saves |-> sv.saves + 1]
    /\ UNCHANGED <<syncVars, loaded, audioVars>>

\* std::fs::write(&tmp_path, json): the file is created or truncated ...
SaveCreate ==
    /\ sv.pc = "create"
    /\ fs' = [fs EXCEPT !["ledger.json.tmp"] = [exists |-> TRUE, data |-> <<>>]]
    /\ sv' = [sv EXCEPT !.pc = "write"]
    /\ UNCHANGED <<syncVars, loaded, audioVars>>

\* ... and the text is written to it piece by piece.
SaveWrite ==
    /\ sv.pc = "write"
    /\ LET n == Len(fs["ledger.json.tmp"].data) + 1
       IN  /\ fs' = [fs EXCEPT !["ledger.json.tmp"].data = SubSeq(sv.json, 1, n)]
           /\ sv' = [sv EXCEPT !.pc = IF n = Len(sv.json) THEN "rename"
                                      ELSE "write"]
    /\ UNCHANGED <<syncVars, loaded, audioVars>>

\* std::fs::rename(&tmp_path, &path) and Ok(())
SaveRename ==
    /\ sv.pc = "rename"
    /\ fs' = [fs EXCEPT !["ledger.json"] = fs["ledger.json.tmp"],
                        !["ledger.json.tmp"] = NoFile]
    /\ sv' = [sv EXCEPT !.pc = "idle"]
    /\ UNCHANGED <<syncVars, loaded, audioVars>>

\* The process dies inside save_ledger; the files stay as they are.
Crash ==
    /\ sv.pc \in {"create", "write", "rename"}
    /\ sv' = [sv EXCEPT !.pc = "crashed"]
    /\ UNCHANGED <<fs, syncVars, loaded, audioVars>>

\* The application is started again and calls load_ledger.
LoadLedger ==
    /\ sv.pc = "crashed"
    /\ fs' = Promote(fs)
    /\ loaded' = load_ledger(fs)
    /\ sv' = [sv EXCEPT !.pc = "loaded"]
    /\ UNCHANGED <<syncVars, audioVars>>

\* No ledger yet, or a ledger an earlier save completed.
StoreInit ==
    /\ AppStart
    /\ rows = [i \in LocalIds |-> NoRow]
    /\ jobs = [j \in JobIds |-> "absent"]
    /\ remote_unique = FALSE
    /\ up = NoUpload
    /\ sy = NoPass
    /\ sv = NoSave
    /\ loaded = NotLoaded
    /\ \E file \in {NoFile} \cup
                   {[exists |-> TRUE, data |-> Serialize(e)] :
                      e \in UNION {[1..n -> Dirs] : n \in 0..MaxEntries}} :
         fs = [f \in FileNames |-> IF f = "ledger.json" THEN file ELSE NoFile]

StoreNext ==
    \/ SaveBegin
    \/ SaveCreate
    \/ SaveWrite
    \/ SaveRename
    \/ Crash
    \/ LoadLedger

StoreSpec == StoreInit /\ [][StoreNext]_vars

\* ------------------------------------------------------------ properties
StopPhase == {"stop_adapters", "stop_flag", "stop_wlock", "stop_take", "stop_mlock"}

\* C1: every encoder start created is finalized exactly once: never twice;
\* an encoder the recorder no longer holds was finalized once; when stop
\* returns, and when the implicit stop of a following start has returned,
\* the encoder that was open has had its one finalize call.
C1_FinalizeExactlyOnce ==
    /\ \A s \in Sessions : finCount[s] <= 1
    /\ \A s \in 1..nsess : s # writer => finCount[s] = 1
    /\ (At("ret") /\ cur.op = "stop") => \A s \in 1..nsess : finCount[s] = 1
    /\ (recLock = Ctl /\ cur.op = "start" /\ cur.pc \notin StopPhase /\ entry.enc # 0)
         => finCount[entry.enc] = 1

\* A start issued on top of session 1 has returned Ok: encoder 1 has had its
\* one finalize call, encoder 2 is open and not finalized.
C1_Witness ==
    /\ At("ret") /\ cur.op = "start" /\ cur.result = "Ok"
    /\ entry.enc = 1 /\ finCount[1] = 1 /\ writer = 2 /\ finCount[2] = 0

\* C2: no write_sample reaches an encoder after its finalize: a worker is
\* never inside its write critical section while stop is inside its
\* take-and-finalize section on the same writer, and a worker that holds the
\* writer lock after finalize finds the writer absent.
C2_NoWriteAfterFinalize ==
    /\ \A s \in Sessions : ~lateWrite[s]
    /\ At("stop_take") => \A w \in Sessions : ~(wpc[w] = "wlocked" /\ wmix[w] = writer)
    /\ \A w \in Sessions :
         (wpc[w] = "wlocked" /\ finCount[wmix[w]] > 0) => ~slot[wmix[w]]

\* A worker holds the writer lock of an encoder that stop has finalized.
C2_Witness ==
    \E w \in Sessions :
        wpc[w] = "wlocked" /\ finCount[wmix[w]] = 1 /\ ~slot[wmix[w]]

\* C3: when a second control thread calls stop while the first one's stop is
\* running on an open encoder, that encoder is finalized at most once at any
\* time and exactly once when both calls have returned.
C3_ConcurrentStopsFinalizeOnce ==
    concStop # 0 =>
        /\ finCount[concStop] <= 1
        /\ concLeft = 0 => finCount[concStop] = 1

\* Both of two overlapping stop calls have returned.
C3_Witness ==
    concStop # 0 /\ concLeft = 0 /\ finCount[concStop] = 1 /\ recLock = Free

\* C4: at most one encoder is open and at most one worker thread is inside
\* AudioMixer::process, working on the mixer the recorder holds; when start
\* is about to create the new encoder the previous session is fully stopped:
\* adapters torn down, every running flag false, no worker in process, mixer
\* cleared, every encoder finalized.
C4_AtMostOneSession ==
    /\ Cardinality({a \in Slots : slot[a]}) <= 1
    /\ Cardinality(InProcess) <= 1
    /\ \A w \in InProcess : wmix[w] = mixer /\ mixerLock = w
    /\ At("start_create") =>
         /\ \A a \in Slots : ~slot[a] /\ ~running[a]
         /\ InProcess = {}
         /\ mixer = 0 /\ stream = 0 /\ mic_stream = NoStream
         /\ \A s \in 1..nsess : finCount[s] = 1

\* A start issued while session 1 was active is about to create its encoder.
C4_Witness ==
    At("start_create") /\ entry.enc = 1 /\ nsess = 1

C7_NoPartialSessionOnTargetNotFound ==
    (At("ret") /\ cur.op = "start" /\ cur.result = "Err_nowindow") =>
        /\ OpenEncoder = 0
        /\ mixer = 0
        /\ \A w \in Sessions : wpc[w] \in {"none", "done"}
        /\ mic_stream = NoStream

\* C8: start with the microphone enabled and a named device that does not
\* exist fails, and no session is active afterwards (stated for the calls in
\* which nothing else fails: the host enumerates its devices, and the
\* capture target, if any, is found and starts).
C8_MissingMicrophoneFailsStart ==
    (At("ret") /\ cur.op = "start" /\ MicEnabledArg(cur.mic)
       /\ cur.mic # "Default" /\ cur.mic \notin Devices
       /\ cur.result \notin {"Err_devices", "Err_nowindow", "Err_capture"}) =>
        /\ cur.result # "Ok"
        /\ OpenEncoder = 0 /\ mixer = 0

\* C9: switch_microphone to a device that does not exist (the host's device
\* enumeration itself working) fails and the stream that was attached before
\* the call is still attached.
C9_FailedSwitchKeepsPreviousMic ==
    (At("ret") /\ cur.op = "switch" /\ cur.mic \notin Devices
       /\ cur.result # "Err_devices" /\ entry.mic # NoStream) =>
        /\ cur.result # "Ok"
        /\ mic_stream = entry.mic

\* C10: a successful switch_microphone during an active session leaves the
\* system stream, the mixer and the encoder as they were, and the new stream
\* pushes into the microphone channel of the active session's mixer, the
\* one this session's start created.
C10_SwitchKeepsSessionAndChannel ==
    (At("ret") /\ cur.op = "switch" /\ cur.result = "Ok"
       /\ OpenEncoder # 0 /\ mixer # 0) =>
        /\ stream = entry.str /\ mixer = entry.mixer /\ slot[writer]
        /\ mic_stream.dev = cur.mic
        /\ mic_stream.ch = mixer
        /\ mic_producer = mixer

\* C28: switch_microphone succeeds only while a session is active: with no
\* session active (none started yet, or the last one stopped) it returns an
\* error and leaves no microphone stream behind, so none is attached to a
\* channel of a finished session.
C28_SwitchNeedsActiveSession ==
    (At("ret") /\ cur.op = "switch" /\ OpenEncoder = 0 /\ mixer = 0) =>
        /\ cur.result # "Ok"
        /\ mic_stream = NoStream

\* C36: every session starts unpaused: once start_recording has created a
\* session the paused flag is clear, also when the flag was set when the call
\* began (the previous session was stopped while paused), and when start
\* returns Ok the callbacks of the streams it attached can push; no step
\* taken while a stop call holds the recorder changes the flag.
C36_SessionStartsUnpaused ==
    /\ []((recLock = Ctl /\ cur.op = "start"
             /\ (cur.pc \in {"start_mic", "start_sys"}
                   \/ (cur.pc = "ret" /\ cur.result = "Ok"))) => ~paused)
    /\ []((At("ret") /\ cur.op = "start" /\ cur.result = "Ok") =>
            /\ stream # 0 => ENABLED SysCallback
            /\ mic_stream # NoStream => ENABLED MicCallback)
    /\ [][(recLock = Ctl /\ cur.op = "stop") => paused' = paused]_vars

\* The first session was paused and stopped; the flag was still set when the
\* second start began, and that start has returned Ok with both streams
\* attached and the flag clear.
C36_Witness ==
    /\ At("ret") /\ cur.op = "start" /\ cur.result = "Ok"
    /\ entry.paused /\ entry.enc = 0
    /\ nsess = 2 /\ finCount[1] = 1
    /\ ~paused /\ stream = 2 /\ mic_stream.ch = 2

\* C11: at any time at most one playing microphone stream pushes into a given
\* channel's producer; in switch_microphone the stream the recorder held has
\* been dropped by the time the new stream plays, so the old and the new
\* callback never both push.
C11_OneStreamPerProducer ==
    /\ \A c \in Sessions : Cardinality({st \in LiveMic : st.ch = c}) <= 1
    /\ At("sw_store") => mic_stream = NoStream

\* switch_microphone, called while a stream was pushing into the channel of
\* the producer, has the new stream playing on that same channel.
C11_Witness ==
    /\ At("sw_store") /\ entry.mic # NoStream /\ entry.mic.ch = mic_producer
    /\ NewMicStream \in LiveMic

\* ----------------------------------------------- properties of CmdSpec
\* C26: when finalize fails during the stop of a session whose start
\* succeeded, stop returns the error and the session is terminated all the
\* same: the encoder handle is released, no worker is inside process, the
\* mixer is cleared and both adapters are torn down.
C26_FinalizeFailureStillTerminates ==
    (At("ret") /\ cur.op = "stop" /\ cur.result = "Err_finalize" /\ is_recording) =>
        /\ OpenEncoder = 0
        /\ InProcess = {}
        /\ mixer = 0
        /\ stream = 0 /\ mic_stream = NoStream

\* C27: a start request reports its outcome: the recorder's start returns
\* Ok only with a session active afterwards, and so does
\* start_recording_command, which returns an error whenever the recorder's
\* start was not called or failed.
C27_StartReportsOutcome ==
    /\ (At("ret") /\ cur.op = "start") =>
          (cur.result = "Ok" => (OpenEncoder # 0 /\ mixer # 0))
    /\ At("cmd_ret") =>
          /\ cur.result # "Ok" => cmd_ret = "Err"
          /\ cmd_ret = "Ok" => (OpenEncoder # 0 /\ mixer # 0)

\* C37: after any sequence of start_recording_command and
\* stop_recording_command calls, AppState.is_recording is true exactly when
\* the recorder has an active session (an open encoder and a mixer; sessions
\* a failed start left half built are set aside), and a start command given
\* with no session active enters the recorder's start_recording.
C37_FlagMatchesSession ==
    /\ [](LET active == OpenEncoder # 0 /\ mixer # 0
              complete == /\ (mixer # 0 /\ sys_enabled[mixer]) => stream = mixer
                          /\ (mixer # 0 /\ mic_enabled[mixer]) => mic_stream # NoStream
          IN  (recLock = Free /\ complete) => (is_recording <=> active))
    /\ [][(recLock = Free /\ recLock' = Ctl /\ cur'.op # "stop"
             /\ OpenEncoder = 0 /\ mixer = 0) => cur'.op = "start"]_vars

\* ----------------------------------------------- properties of ErrSpec
\* C34: an error reported by the microphone stream or by the system-capture
\* stream does not stop the session: the step that reports it changes
\* neither the running flags nor the workers, leaves every encoder as it was
\* (open or not, finalized or not) and both streams and the mixer in place;
\* and an encoder is only ever taken out of its slot or finalized by a step
\* of stop_recording.
C34_StreamErrorKeepsSession ==
    /\ [][errLog' # errLog =>
            UNCHANGED <<running, mixer_running, wpc, wmix, mixer, mixerLock,
                        writer, slot, wlock, finCount, stream, mic_stream,
                        mic_producer, paused, sysq, micq>>]_vars
    /\ [][(slot' # slot /\ \E a \in Sessions : slot[a] /\ ~slot'[a]) \/ finCount' # finCount
            => At("stop_take")]_vars
    /\ [][(\E s \in Sessions : running[s] /\ ~running'[s]) => At("stop_flag")]_vars

\* Both streams of a session have reported an error; the session goes on:
\* its worker is inside process, the running flag is set, its encoder is
\* open and was never finalized, and both streams are still attached.
C34_Witness ==
    /\ errLog = 2
    /\ mixer # 0 /\ running[mixer] /\ mixer \in InProcess
    /\ OpenEncoder = mixer /\ finCount[mixer] = 0
    /\ stream = mixer /\ mic_stream # NoStream
    /\ recLock = Free

\* -------------------------------------------- properties of StatusSpec
\* C30: get_status changes no session state, and it completes without
\* waiting for the mixing worker: a status query that is pending while a
\* stop in progress waits for the worker to give up the mixer can complete
\* all the same.
C30_StatusPureAndNeverWaits ==
    /\ [][GetStatus =>
            UNCHANGED <<recorderVars, queueVars, encVars, workerVars,
                        mixVars, serviceVars, clockVars, is_recording>>]_vars
    /\ []((statusWaiting /\ At("stop_mlock") /\ cur.op = "stop"
             /\ mixerLock \in InProcess) => ENABLED GetStatus)

\* ----------------------------------------------- properties of MixSpec
Clamp(x, lo, hi) == IF x < lo THEN lo ELSE IF x > hi THEN hi ELSE x
Range(q) == {q[k] : k \in 1..Len(q)}

\* Samples of the microphone, and of the system source, that have reached
\* the channel, a callback's push loop, the worker or the encoder.
MicTaken ==
    Range(mic_cb) \cup Range(mic_rb) \cup {mixed.mic} \cup {out[k].mic : k \in 1..Len(out)}

SysTaken ==
    Range(sys_cb) \cup Range(sys_rb) \cup {mixed.sys} \cup {out[k].sys : k \in 1..Len(out)}

\* C12 (as claimed): while the paused flag is set no sample is pushed into
\* either channel.
C12_NoPushWhilePaused ==
    [][paused => (Len(mic_rb') <= Len(mic_rb) /\ Len(sys_rb') <= Len(sys_rb))]_vars

\* C12 (amended): a callback that reads the paused flag set consumes its
\* buffer and pushes none of it: its samples are in no channel, no push
\* loop, not with the worker and not in the output.  (The flag is read once
\* per callback, so a callback that read it clear goes on pushing its buffer
\* after pause.)
C12_PausedCallbackPushesNothing ==
    /\ \A i \in 1..MaxFeed : <<"mic", i>> \in skipped => i \notin MicTaken
    /\ \A i \in 1..MaxFeed : <<"sys", i>> \in skipped => i \notin SysTaken
    /\ \A e \in skipped : e[2] <= (IF e[1] = "mic" THEN mic_fed ELSE sys_fed)

\* Both adapters have had a callback that read the flag set, while earlier
\* samples of both were pushed and written.
C12_Witness ==
    /\ paused
    /\ <<"mic", 2>> \in skipped /\ <<"sys", 2>> \in skipped
    /\ Len(out) = 1 /\ out[1].mic = 1 /\ out[1].sys = 1

\* C13 (as claimed): between a pause and the following resume the number of
\* samples written grows by at most the number of samples that were in the
\* channels when pause was called.
C13_PausedGrowthWithinBuffered ==
    paused => pGrown <= pBuffered

\* C13 (amended): between a pause and the following resume the number of
\* samples written grows by at most the number of samples that were in the
\* channels, in the push loop of a callback that had read the flag clear, or
\* popped and not yet written by the worker, when pause was called; samples
\* handed to a callback that read the flag set never appear in the output.
C13_PausedGrowthWithinInFlight ==
    /\ paused => pGrown <= pBuffered + pInFlight
    /\ \A k \in 1..Len(out) :
         <<"mic", out[k].mic>> \notin skipped /\ <<"sys", out[k].sys>> \notin skipped

\* During a pause everything that was buffered or in flight has been
\* written, and a buffer delivered meanwhile was discarded.
C13_Witness ==
    /\ paused /\ pInFlight > 0 /\ pBuffered > 0
    /\ pGrown = pBuffered + pInFlight
    /\ skipped # {}

\* C14: a step that changes the paused flag (pause or resume) changes nothing
\* else: not the worker's running flag or position, not the encoder (open or
\* finalized, samples written), not the channels, not the device streams.
C14_PauseChangesOnlyFlag ==
    [][paused' # paused =>
         UNCHANGED <<running, mixer_running, mixer, mixerLock, wpc, wmix, mixed,
                     writer, slot, wlock, finCount, out,
                     sys_rb, mic_rb, sys_cb, mic_cb, sysq, micq,
                     stream, mic_stream, mic_producer>>]_vars

\* Paused in the middle of a session: worker running, encoder open with
\* samples written, samples buffered, both streams attached.
C14_Witness ==
    /\ paused /\ running[Followed] /\ wpc[Followed] = "loop"
    /\ slot[Followed] /\ Len(out) > 0 /\ sys_rb # <<>>
    /\ stream # 0 /\ mic_stream # NoStream

\* C15: with the microphone enabled the worker never waits on the system
\* channel: whenever a microphone sample is at the head of its channel while
\* the running flag is set and the encoder is open, that sample is eventually
\* written (or stop has cleared the running flag first), also when the system
\* channel stays empty for ever.
C15_MicNeverWaitsForSystem ==
    \A i \in 1..MaxFeed :
        (/\ mic_enabled[Followed] /\ running[Followed] /\ slot[Followed]
         /\ mic_rb # <<>> /\ Head(mic_rb) = i)
          ~> (\/ \E k \in 1..Len(out) : out[k].mic = i
              \/ ~running[Followed])

\* Both sources enabled, the system source has delivered nothing, and two
\* microphone samples have been written with silence for the system term.
C15_Witness ==
    /\ mic_enabled[Followed] /\ sys_enabled[Followed] /\ running[Followed]
    /\ sys_fed = 0 /\ sys_rb = <<>>
    /\ Len(out) = 2 /\ out[1].sys = 0 /\ out[2].sys = 0 /\ out[2].mic # 0

\* C16: when only the microphone is enabled, or the system source has
\* delivered no sample, every sample written is the microphone sample that
\* was popped for it, unchanged, and the microphone samples are written in
\* the order they were popped, each once.
C16_MicOnlyPassThrough ==
    (mixer = Followed /\ mic_enabled[Followed]
       /\ (~sys_enabled[Followed] \/ sys_fed = 0)) =>
        /\ \A k \in 1..Len(out) :
             /\ out[k].mic # 0 /\ out[k].sys = 0
             /\ out[k].v = MicSample(out[k].mic)
        /\ \A k \in 1..Len(out) - 1 : out[k].mic < out[k + 1].mic
        /\ mixed # Idle => mixed.v = MicSample(mixed.mic) /\ mixed.sys = 0

\* System enabled but silent for the whole session: every microphone sample
\* has been written, among them one of magnitude 1.0.
C16_Witness ==
    /\ mixer = Followed /\ mic_enabled[Followed] /\ sys_enabled[Followed]
    /\ sys_fed = 0 /\ Len(out) = MaxFeed
    /\ \E k \in 1..Len(out) : out[k].v = Unit

\* C17: the master source follows from the enabled flags alone: with the
\* microphone enabled every sample written was paced by a microphone sample,
\* whatever the channels hold; with only the system source enabled, by a
\* system sample and no microphone sample is read; with neither enabled the
\* worker writes nothing.
C17_MasterByFlagsOnly ==
    mixer = Followed =>
        LET done == Range(out) \cup {e \in {mixed} : e # Idle} IN
        /\ mic_enabled[Followed] => \A e \in done : e.mic # 0
        /\ (~mic_enabled[Followed] /\ sys_enabled[Followed]) =>
             \A e \in done : e.mic = 0 /\ e.sys # 0
        /\ (~mic_enabled[Followed] /\ ~sys_enabled[Followed]) => done = {}

\* Both sources enabled, every system sample delivered and the system
\* channel full, the microphone silent: the worker waits and has written
\* nothing.
C17_Witness ==
    /\ mixer = Followed /\ mic_enabled[Followed] /\ sys_enabled[Followed]
    /\ Len(sys_rb) = RbCap /\ sys_fed = MaxFeed /\ mic_rb = <<>> /\ mic_fed = 0
    /\ wpc[Followed] = "loop" /\ running[Followed] /\ out = <<>>

\* C20: per source, the samples that contribute to the output do so in the
\* order in which they were pushed, none twice: along the output, then the
\* worker's hands, then the channel, then the push loop, the samples of a
\* source come in strictly increasing order of delivery.
Contributed(q) == SelectSeq(q, LAMBDA i : i # 0)

Increasing(q) == \A k \in 1..Len(q) - 1 : q[k] < q[k + 1]

C20_PerSourceOrderKept ==
    /\ Increasing(Contributed([k \in 1..Len(out) |-> out[k].mic] \o <<mixed.mic>>)
                    \o mic_rb \o mic_cb)
    /\ Increasing(Contributed([k \in 1..Len(out) |-> out[k].sys] \o <<mixed.sys>>)
                    \o sys_rb \o sys_cb)

\* Three samples of each source have been written, two of them after
\* waiting together in the channel.
C20_Witness ==
    /\ Len(out) = MaxFeed
    /\ \A k \in 1..Len(out) : out[k].mic = k /\ out[k].sys = k

\* C31: while the encoder is open, each sample popped from the master channel
\* yields exactly one write to the encoder, in pop order, and at most one
\* sample is popped from the other channel per master sample: a pop takes
\* the head of the master channel and at most the head of the other one and
\* writes nothing; a write appends the popped sample, once; nothing else
\* changes the output or shortens a channel.  So the samples written are as
\* many as the master samples popped and written, distinct master samples
\* in the order of their delivery, none of them still to be pushed.
MasterIds(q) == [k \in 1..Len(q) |-> IF Master(Followed) = "mic" THEN q[k].mic ELSE q[k].sys]
MasterFed == IF Master(Followed) = "mic" THEN mic_fed ELSE sys_fed
MasterCb == IF Master(Followed) = "mic" THEN mic_cb ELSE sys_cb
OtherRb == IF Master(Followed) = "mic" THEN sys_rb ELSE mic_rb
C31_OneWritePerMasterPop ==
    /\ [][slot[Followed] =>
            /\ (mixed = Idle /\ mixed' # Idle) =>
                 /\ MasterRb(Followed) # <<>>
                 /\ MasterRb(Followed)' = Tail(MasterRb(Followed))
                 /\ MasterIds(<<mixed'>>) = <<Head(MasterRb(Followed))>>
                 /\ (OtherRb' = OtherRb \/ (OtherRb # <<>> /\ OtherRb' = Tail(OtherRb)))
                 /\ out' = out
            /\ (mixed # Idle /\ mixed' = Idle) => out' = Append(out, mixed)
            /\ out' # out => (mixed # Idle /\ mixed' = Idle)
            /\ Len(MasterRb(Followed)') < Len(MasterRb(Followed)) =>
                 (mixed = Idle /\ mixed' # Idle)
            /\ Len(OtherRb') < Len(OtherRb) => (mixed = Idle /\ mixed' # Idle)]_vars
    /\ [](slot[Followed] =>
            /\ Increasing(MasterIds(out \o (IF mixed = Idle THEN <<>> ELSE <<mixed>>))
                           \o MasterRb(Followed) \o MasterCb)
            /\ \A k \in 1..Len(out) : MasterIds(out)[k] \in 1..MasterFed
            /\ Len(out) + Len(MasterRb(Followed)) + Len(MasterCb) <= MasterFed)

\* With both sources enabled and the encoder still open, two samples have
\* been written, the first mixed with silence and the second with a system
\* sample, and a third master sample is popped and waits to be written.
C31_Witness ==
    /\ mic_enabled[Followed] /\ sys_enabled[Followed] /\ slot[Followed]
    /\ Len(out) = 2 /\ out[1].sys = 0 /\ out[2].sys = 1
    /\ mixed # Idle /\ mixed.mic = 3

\* C32: when only the system source is enabled, each written sample equals
\* clamp(system sample, -1, 1) with no microphone term, and the microphone
\* channel is never read: every sample the worker has popped or written
\* carries a system sample and no microphone sample, its value is the
\* clamped system sample (the sample itself when it lies in [-1, 1]), and no
\* step shortens the microphone channel.
C32_SystemOnlyPassThrough ==
    /\ []((mixer = Followed /\ sys_enabled[Followed] /\ ~mic_enabled[Followed]) =>
            /\ \A e \in Range(out) \cup ({mixed} \ {Idle}) :
                 /\ e.mic = 0 /\ e.sys # 0
                 /\ e.v = Clamp(SysSample(e.sys), -Unit, Unit)
                 /\ e.v = SysSample(e.sys)
            /\ \A x \in (-2 * Unit)..(2 * Unit) : PassThrough(x) = Clamp(x, -Unit, Unit))
    /\ [][(sys_enabled[Followed] /\ ~mic_enabled[Followed]) =>
            Len(mic_rb') >= Len(mic_rb)]_vars

\* A system-only session has written every sample delivered, among them one
\* of value -1.0 and a positive one.
C32_Witness ==
    /\ mixer = Followed /\ sys_enabled[Followed] /\ ~mic_enabled[Followed]
    /\ Len(out) = MaxFeed
    /\ \E k \in 1..Len(out) : out[k].v = -Unit
    /\ \E k \in 1..Len(out) : out[k].v > 0

\* C29: while a session is active, each block of LevelN consecutive mixed
\* samples produces exactly one Level Metric emission, so the number of
\* emissions equals the number of samples mixed so far divided by LevelN,
\* rounded down.
C29_OneEmissionPerBlock ==
    (mixer = Followed /\ slot[Followed] /\ running[Followed]) =>
        emitted = (Len(out) + (IF mixed = Idle THEN 0 ELSE 1)) \div LevelN

\* C21: the channels keep their contract.  Neither ever holds more than its
\* capacity.  A push on a full channel leaves the buffered samples as they
\* were and the refused sample is lost: it is in no channel, no push loop,
\* not with the worker and not in the output.  A pop on an empty system
\* channel yields nothing (the worker mixes silence) and leaves it empty.
\* Neither operation blocks: a callback with a sample to push can push it
\* whatever the channel holds, and the worker at the head of its drain loop
\* can always go on.
C21_ChannelContract ==
    /\ [](/\ Len(mic_rb) <= RbCap /\ Len(sys_rb) <= RbCap
          /\ (mic_stream # NoStream /\ mic_cb # <<>>) => ENABLED MicPush
          /\ (stream # 0 /\ sys_cb # <<>>) => ENABLED SysPush
          /\ (wpc[Followed] = "drain") => ENABLED MixPop)
    /\ [][/\ (mic_cb # <<>> /\ mic_cb' = Tail(mic_cb) /\ Len(mic_rb) = RbCap)
               => (mic_rb' = mic_rb /\ Head(mic_cb) \notin MicTaken')
          /\ (sys_cb # <<>> /\ sys_cb' = Tail(sys_cb) /\ Len(sys_rb) = RbCap)
               => (sys_rb' = sys_rb /\ Head(sys_cb) \notin SysTaken')
          /\ (mixed = Idle /\ mixed' # Idle /\ sys_rb = <<>>)
               => (mixed'.sys = 0 /\ sys_rb' = <<>>)]_vars

\* The worker has popped a microphone sample while the system channel was
\* empty; since then the system channel has filled up and refused a sample.
C21_Witness ==
    /\ Len(out) = 1 /\ out[1].mic = 1 /\ out[1].sys = 0
    /\ Len(sys_rb) = RbCap /\ Head(sys_rb) = 1
    /\ sys_fed = RbCap + 1 /\ sys_cb = <<>>
    /\ (RbCap + 1) \notin SysTaken /\ <<"sys", RbCap + 1>> \notin skipped

\* --------------------------------------------- properties of AdaptSpec
\* The system samples that have left the callback, oldest first: written,
\* in the worker's hands, in the channel.
SysHistory ==
    Contributed([k \in 1..Len(out) |-> out[k].sys] \o <<mixed.sys>>) \o sys_rb

\* Those of them that come from the buffer last delivered.
FromBuf(q) == SelectSeq(q, LAMBDA x : x \in Range(sys_buf.samples))

Pos(q, x) == CHOOSE k \in 1..Len(q) : q[k] = x

\* C22: for a planar stereo buffer [L0..L(n-1), R0..R(n-1)] delivered while
\* unpaused the adapter's push calls are L0, R0, L1, R1, ..., L(n-1), R(n-1)
\* in that order: what it has still to push is the rest of that sequence,
\* what has reached the channel and the worker keeps that order, and when
\* the channel refused none it is exactly the part pushed so far.
C22_PlanarInterleaved ==
    (sys_buf.planar /\ sys_buf.channels = 2 /\ sys_buf.samples # <<>>
       /\ Len(sys_buf.samples) % 2 = 0) =>
        LET n == Len(sys_buf.samples) \div 2
            want == [k \in 1..(2 * n) |->
                       IF k % 2 = 1 THEN sys_buf.samples[(k + 1) \div 2]
                                    ELSE sys_buf.samples[n + (k \div 2)]]
            done == 2 * n - Len(sys_cb)
            got == FromBuf(SysHistory)
        IN  /\ sys_cb = SubSeq(want, done + 1, 2 * n)
            /\ Len(got) <= done
            /\ Len(got) = done => got = SubSeq(want, 1, done)
            /\ \A a \in 1..Len(got), b \in 1..Len(got) :
                 a < b => Pos(want, got[a]) < Pos(want, got[b])

\* A planar buffer of two frames [L0, L1, R0, R1] has been pushed and
\* written whole: L0, R0, L1, R1.
C22_Witness ==
    /\ sys_buf = [samples |-> <<1, 2, 3, 4>>, planar |-> TRUE, channels |-> 2]
    /\ sys_cb = <<>>
    /\ [k \in 1..Len(out) |-> out[k].sys] = <<1, 3, 2, 4>>

\* C23: for a mono buffer [M0, ..., M(n-1)] delivered while unpaused the
\* adapter's push calls are M0, M0, M1, M1, ..., 2n of them in order: what
\* it has still to push is the rest of that sequence, what has reached the
\* channel and the worker keeps that order with no sample more than twice,
\* and when the channel refused none it is exactly the part pushed so far.
C23_MonoDuplicated ==
    (sys_buf.channels = 1 /\ sys_buf.samples # <<>>) =>
        LET n == Len(sys_buf.samples)
            want == [k \in 1..(2 * n) |-> sys_buf.samples[(k + 1) \div 2]]
            done == 2 * n - Len(sys_cb)
            got == FromBuf(SysHistory)
        IN  /\ Len(want) = 2 * n
            /\ sys_cb = SubSeq(want, done + 1, 2 * n)
            /\ Len(got) <= done
            /\ Len(got) = done => got = SubSeq(want, 1, done)
            /\ \A a \in 1..Len(got), b \in 1..Len(got) : a < b => got[a] <= got[b]
            /\ \A x \in Range(got) :
                 Cardinality({k \in 1..Len(got) : got[k] = x}) <= 2

\* A mono buffer [M0, M1] has been pushed and written whole: M0, M0, M1, M1.
C23_Witness ==
    /\ sys_buf = [samples |-> <<1, 2>>, planar |-> FALSE, channels |-> 1]
    /\ sys_cb = <<>>
    /\ [k \in 1..Len(out) |-> out[k].sys] = <<1, 1, 2, 2>>

\* C33: the system adapter selects its normalization path from the format
\* description of each buffer: it de-interleaves only when the description
\* reports non-interleaved data with 2 channels, duplicates only when it
\* reports 1 channel, and otherwise, also when there is no description,
\* pushes the samples unchanged and in order.  What the callback has still
\* to push is at all times the rest of the sequence chosen that way.
C33_PathFromDescriptor ==
    sys_buf.samples # <<>> =>
        LET b == sys_buf.samples
            n == Len(b)
            desc == sys_asbd # NoDesc
            nonInterleaved == desc /\ sys_asbd.mFormatFlags \in {f \in 0..63 : f >= 32}
            want == IF nonInterleaved /\ sys_asbd.mChannelsPerFrame = 2
                      THEN [k \in 1..(2 * (n \div 2)) |->
                              IF k % 2 = 1 THEN b[(k + 1) \div 2]
                                           ELSE b[(n \div 2) + (k \div 2)]]
                      ELSE IF desc /\ sys_asbd.mChannelsPerFrame = 1
                             THEN [k \in 1..(2 * n) |-> b[(k + 1) \div 2]]
                             ELSE b
        IN  /\ Len(sys_cb) <= Len(want)
            /\ sys_cb = SubSeq(want, Len(want) - Len(sys_cb) + 1, Len(want))

\* A buffer of four samples that came without a format description has been
\* pushed and written as it was.
C33_Witness ==
    /\ sys_asbd = NoDesc
    /\ sys_buf.samples = <<1, 2, 3, 4>>
    /\ sys_cb = <<>>
    /\ [k \in 1..Len(out) |-> out[k].sys] = <<1, 2, 3, 4>>

\* -------------------------------------------- properties of StrictSpec
\* C35: in the strict-wait mixer with both sources enabled a sample is
\* written only when both channels are non-empty: the worker pops only with
\* a sample at the head of each channel and takes both, so every sample
\* popped or written has a microphone and a system operand; if one source
\* has delivered nothing, nothing is written, however many samples the other
\* source has delivered.
C35_StrictWaitsForBoth ==
    /\ [][(mixed = Idle /\ mixed' # Idle) =>
            /\ mic_rb # <<>> /\ sys_rb # <<>>
            /\ mixed'.mic = Head(mic_rb) /\ mixed'.sys = Head(sys_rb)]_vars
    /\ [](/\ \A e \in Range(out) \cup ({mixed} \ {Idle}) : e.mic # 0 /\ e.sys # 0
          /\ (sys_fed = 0 \/ mic_fed = 0) => (out = <<>> /\ mixed = Idle)
          /\ Len(out) <= mic_fed /\ Len(out) <= sys_fed)

\* The microphone has delivered all its samples and its channel is full,
\* the system source has delivered nothing: the worker is at the head of its
\* loop, running, and nothing has been written.
C35_Witness ==
    /\ mic_fed = MaxFeed /\ Len(mic_rb) = RbCap /\ mic_cb = <<>>
    /\ sys_fed = 0
    /\ wpc[Followed] = "loop" /\ running[Followed] /\ mixerLock = Followed
    /\ out = <<>>

\* ---------------------------------------------- properties of ClipSpec

\* C19: for every pair of samples (a, b) of magnitude at most 1.0 that the
\* worker mixes, the mixed value is clamp(a + b, -1, 1), it lies in [-1, 1],
\* and it is the same with the two samples exchanged, in the sum of either
\* mixer.
C19_MixClampedCommutative ==
    \A e \in Range(out) \cup {mixed} :
        (e.mic # 0 /\ e.sys # 0) =>
            LET a == MicSample(e.mic)
                b == SysSample(e.sys)
            IN  /\ -Unit <= a /\ a <= Unit /\ -Unit <= b /\ b <= Unit
                /\ e.v = Clamp(a + b, -Unit, Unit)
                /\ -Unit <= e.v /\ e.v <= Unit
                /\ e.v = Mix(b, a)
                /\ e.v = MixStrict(b, a) /\ e.v = MixStrict(a, b)

\* The worker has written the mix of two samples of value -1.0: clipped.
C19_Witness ==
    /\ Len(out) = 1 /\ out[1].mic # 0 /\ out[1].sys # 0
    /\ MicSample(out[1].mic) = -Unit /\ SysSample(out[1].sys) = -Unit
    /\ out[1].v = -Unit

C25_StopDrainsInFlight ==
    (At("stop_mlock") /\ cur.op = "stop" /\ mixer = Followed
       /\ finCount[Followed] = 1 /\ wpc[Followed] = "done") =>
        /\ MasterRb(Followed) = <<>>
        /\ mixed = Idle
        /\ \A i \in 1..(IF Master(Followed) = "mic" THEN mic_fed ELSE sys_fed) :
             \E k \in 1..Len(out) :
                 (IF Master(Followed) = "mic" THEN out[k].mic ELSE out[k].sys) = i

\* -------------------------------------------- properties of UploadSpec
\* C38: when an upload returns, the recording's sync_status is not left at
\* Uploading: after a success it is ProcessingRemote with remote_job_id set
\* and local_file_path cleared, and after every failure that follows the
\* update to Uploading it is Failed.
C38_UploadNeverLeftUploading ==
    up.pc = "ret" =>
        LET r == rows[Draft]
        IN  /\ r.sync_status # "UPLOADING"
            /\ up.result = "Ok" =>
                 /\ r.sync_status = "PROCESSING_REMOTE"
                 /\ r.remote_job_id # 0
                 /\ r.local_file_path = ""
            /\ (up.result # "Ok" /\ up.marked) => r.sync_status = "FAILED"

\* ---------------------------------------------- properties of SyncSpec
\* C39: whatever the interleaving of an upload and the sync passes that see
\* the job it created, at most one row of cached_recordings carries that
\* remote_job_id.
C39_OneRowPerRemoteJob ==
    \A j \in JobIds : Cardinality(Holding(j)) <= 1

\* --------------------------------------------- properties of StoreSpec
\* C40: after a crash at any point of save_ledger, the next load_ledger
\* returns the complete previous ledger or the complete new one, never a
\* partially written one.
C40_LoadAfterCrashIsComplete ==
    sv.pc = "loaded" =>
        /\ loaded.result = "Ok"
        /\ loaded.entries \in {sv.prev, Parse(sv.json).entries}

====
